---- MODULE Spec2Model ----
(***************************************************************************)
(* Verification model of the product scraper (final.py, scraper.py).       *)
(*                                                                         *)
(* A text is a sequence of tokens; the string it stands for is the tokens  *)
(* joined by single spaces, which is what clean_text leaves.  A token is a *)
(* record [w, c]: w is the lower-cased word, and for a number token        *)
(* (w = "num") c is the amount in cents of a well-formed d{1,3}(.ddd)*,dd  *)
(* literal.  The Python substring tests ('x de r$' in low, ...) are        *)
(* evaluated over that rendering.                                          *)
(***************************************************************************)
EXTENDS Integers, Sequences, FiniteSets, TLC

\* ------------------------------------------------------------------------
\* Bounds of the model
\* ------------------------------------------------------------------------
MaxKids == 2
MaxRows == 2

\* Python's None for numeric fields (amounts are cents >= 0)
None == 0 - 1

\* ------------------------------------------------------------------------
\* Texts
\* ------------------------------------------------------------------------
Tok(w) == [w |-> w, c |-> 0]
Num(c) == [w |-> "num", c |-> c]

\* the words of the pages of the model are de, por, r$, 3x, pix and the
\* number literals; those whose last letter is 'x':
EndsWithX(t) == t.w \in {"3x", "pix"}

\* NUMBER_RE.search(txt): index of the first number literal, 0 when none
RECURSIVE FirstNumFrom(_, _)
FirstNumFrom(txt, i) ==
    IF i > Len(txt) THEN 0
    ELSE IF txt[i].w = "num" THEN i
    ELSE FirstNumFrom(txt, i + 1)

NUMBER_RE_search(txt) == FirstNumFrom(txt, 1)

\* CURRENCY_RE.search(txt): an "R$" directly followed by a number literal
CURRENCY_RE_matches(txt) ==
    {i \in 1..(Len(txt) - 1) : txt[i].w = "r$" /\ txt[i + 1].w = "num"}

\* norm_price_str: "R$ " + the first number literal, '' (the empty text) if none
norm_price_str(txt) ==
    LET i == NUMBER_RE_search(txt)
    IN  IF i = 0 THEN << >> ELSE <<Tok("r$"), txt[i]>>

\* br_to_float: the value of the first number literal, None if none
br_to_float(txt) ==
    IF txt = << >> THEN None
    ELSE LET i == NUMBER_RE_search(txt)
         IN  IF i = 0 THEN None ELSE txt[i].c

\* substring tests of pick_best_price and collect_dom_prices over the rendering
HasWord(txt, w) == \E i \in 1..Len(txt) : txt[i].w = w
\* 'x de ' in low
Has_x_de(txt) ==
    \E i \in 1..(Len(txt) - 2) : EndsWithX(txt[i]) /\ txt[i + 1].w = "de"
\* 'x de r$' in low
Has_x_de_rs(txt) ==
    \E i \in 1..(Len(txt) - 2) :
        EndsWithX(txt[i]) /\ txt[i + 1].w = "de" /\ txt[i + 2].w = "r$"
\* ' de ' in low  (a space on both sides: neither the first nor the last word)
Has_sp_de_sp(txt) == \E i \in 2..(Len(txt) - 1) : txt[i].w = "de"
\* ' de r$' in low
Has_sp_de_rs(txt) ==
    \E i \in 2..(Len(txt) - 1) : txt[i].w = "de" /\ txt[i + 1].w = "r$"
\* ' por ' in low
Has_sp_por_sp(txt) == \E i \in 2..(Len(txt) - 1) : txt[i].w = "por"
\* 'por ' in low
Has_por_sp(txt) == \E i \in 1..(Len(txt) - 1) : txt[i].w = "por"
\* 'de ' in low
Has_de_sp(txt) == \E i \in 1..(Len(txt) - 1) : txt[i].w = "de"

\* any(h in low for h in GOOD_PRICE_HINTS): of the hints only 'por ' and 'pix'
\* can occur in a text over Words
GoodHint(txt) == Has_por_sp(txt) \/ HasWord(txt, "pix")
\* any(h in low for h in BAD_PRICE_HINTS): of the hints only 'de ' and 'de r$'
\* can occur in a text over Words
BadHint(txt) == Has_de_sp(txt)

\* ------------------------------------------------------------------------
\* Pages: one container element holding leaf elements
\* ------------------------------------------------------------------------
\* the class attributes of the model are "price", "old-price" and "note";
\* ClassContains: the substrings, of those the code tests, that each contains
OLD_PRICE_CLASSES ==
    {"old", "from", "risk", "strike", "line-through", "cross", "de-preco",
     "preco-de", "price-from"}
ClassContains(cls, k) ==
    <<cls, k>> \in {<<"price", "price">>, <<"old-price", "price">>,
                    <<"old-price", "old">>}

SELECTORS_PRICE_COMMON ==
    <<"[itemprop=price]", "[data-testid*=price]", "[class*=price]",
      "[aria-label*=preço]", "[aria-label*=preco]">>
SELECTORS_PRICE_MAGALU ==
    <<"[data-testid=price-value]", "[data-testid=price-big]",
      "[data-testid=price-amount]", "[class*=Price]">>
SELECTORS_PRICE_KABUM ==
    <<"[data-testid=product-price]", "span.finalPrice", "h4.finalPrice",
      ".priceCard strong">>

InSeq(x, s) == \E i \in 1..Len(s) : s[i] = x

\* soup.select(sel) on an element with class cls and data-testid tid
Matches(sel, el) ==
    CASE sel = "[class*=price]" -> ClassContains(el.cls, "price")
      [] sel = "[data-testid*=price]" -> el.tid = "price-value"
      [] sel = "[data-testid=price-value]" -> el.tid = "price-value"
      [] OTHER -> FALSE

RECURSIVE Concat(_)
Concat(ss) == IF ss = << >> THEN << >> ELSE Head(ss) \o Concat(Tail(ss))

\* clean_text(el.get_text(' ')) of the container (of a leaf it is leaf.txt)
BoxText(page) == Concat([i \in 1..Len(page.kids) |-> page.kids[i].txt])

\* the elements of the page in document order: the container, then its leaves
Elements(page) ==
    <<[cls |-> page.cls, tid |-> "", txt |-> BoxText(page), leaf |-> 0,
       cmt |-> FALSE, split |-> FALSE]>>
    \o [i \in 1..Len(page.kids) |->
          [cls |-> page.kids[i].cls, tid |-> page.kids[i].tid,
           txt |-> page.kids[i].txt, leaf |-> i, cmt |-> page.kids[i].cmt,
           split |-> page.kids[i].split]]

\* ------------------------------------------------------------------------
\* Price candidates (final.py)
\* ------------------------------------------------------------------------
\* any(k in cls for k in OLD_PRICE_CLASSES)
IsStaleClass(cls) == \E k \in OLD_PRICE_CLASSES : ClassContains(cls, k)

HasPriceText(txt) == CURRENCY_RE_matches(txt) # {} \/ NUMBER_RE_search(txt) # 0

\* the selector list of collect_dom_prices for a domain hint
SelList(hint) ==
    (IF hint = "magalu" THEN SELECTORS_PRICE_MAGALU ELSE << >>)
    \o (IF hint = "kabum" THEN SELECTORS_PRICE_KABUM ELSE << >>)
    \o SELECTORS_PRICE_COMMON

\* the score collect_dom_prices gives a selector candidate
SelScore(sel, txt) ==
    (IF GoodHint(txt) THEN 2 ELSE 0)
    - (IF BadHint(txt) THEN 2 ELSE 0)
    + (IF InSeq(sel, SELECTORS_PRICE_MAGALU) \/ InSeq(sel, SELECTORS_PRICE_KABUM)
       THEN 2 ELSE 0)

\* whether the selector scan keeps element el matched by sel
SelKeeps(sel, el) ==
    /\ Matches(sel, el)
    /\ el.txt # << >>
    /\ ~IsStaleClass(el.cls)
    /\ HasPriceText(el.txt)

SelScan(sel, els) ==
    LET keep == SelectSeq(els, LAMBDA e : SelKeeps(sel, e))
    IN  [i \in 1..Len(keep) |->
           [txt |-> keep[i].txt, score |-> SelScore(sel, keep[i].txt),
            reason |-> sel, leaf |-> keep[i].leaf]]

\* soup.find_all(string=re.compile("(por|à vista|a vista|pix)")): the
\* string nodes holding a contextual keyword; candidate = text of the parent.
\* The text node of a leaf has the leaf as its parent, and so has a comment
\* node of the leaf (a comment is a string node for find_all and is left out
\* by get_text); in a split leaf the words before the amount are the text
\* node of a label element, whose text holds no amount.
ContextScan(page) ==
    LET hit == SelectSeq(Elements(page),
                   LAMBDA e : /\ e.leaf # 0
                              /\ \/ /\ ~e.split
                                    /\ HasWord(e.txt, "por") \/ HasWord(e.txt, "pix")
                                 \/ e.cmt
                              /\ HasPriceText(e.txt))
    IN  [i \in 1..Len(hit) |->
           [txt |-> hit[i].txt, score |-> 3, reason |-> "context:por/avista",
            leaf |-> hit[i].leaf]]

collect_dom_prices(page, hint) ==
    LET sels == SelList(hint)
    IN  Concat([k \in 1..Len(sels) |-> SelScan(sels[k], Elements(page))])
        \o ContextScan(page)

\* jsonld_prices: the offer values of the structured-data blocks, normalised.
\* A raw value is [form, c]: "dot" a dot-decimal number or numeric string of c
\* cents, "comma" a comma-decimal string of c cents, "nonfinite" a value
\* float() reads as inf or nan (formatted "R$ inf": no number literal),
\* "junk" any other string (float() raises: no candidate).
JsonldNorm(raw) ==
    IF raw.form = "comma" THEN <<norm_price_str(<<Num(raw.c)>>)>>
    ELSE IF raw.form = "dot" THEN <<(<<Tok("r$"), Num(raw.c)>>)>>
    ELSE IF raw.form = "nonfinite" THEN <<(<<Tok("r$"), Tok("inf")>>)>>
    ELSE << >>

jsonld_prices(page) ==
    Concat([i \in 1..Len(page.jsonld) |-> JsonldNorm(page.jsonld[i])])

\* a parser that gives structured data the score of a contextual candidate
JsonldCandAsContext(p) == [txt |-> p, score |-> 3, reason |-> "jsonld", leaf |-> 0]

\* (p, 5, 'jsonld')
JsonldCand(p) == [txt |-> p, score |-> 5, reason |-> "jsonld", leaf |-> 0]

\* cands of parse_magalu / parse_kabum / parse_generic
ParserCands(page, hint) ==
    LET ps == jsonld_prices(page)
    IN  [i \in 1..Len(ps) |-> JsonldCand(ps[i])]
        \o collect_dom_prices(page, hint)

\* ------------------------------------------------------------------------
\* The ranker (final.py pick_best_price)
\* ------------------------------------------------------------------------
\* the installment filter: any(k in low for k in ('x de r$','x de ',...))
IsInstallment(txt) == Has_x_de_rs(txt) \/ Has_x_de(txt)

\* the "de ... without por" penalty
RankPenalty(txt) ==
    IF (Has_sp_de_sp(txt) \/ Has_sp_de_rs(txt)) /\ ~Has_sp_por_sp(txt)
    THEN 2 ELSE 0

\* the loop of pick_best_price: the candidates that survive, scored
RECURSIVE Normed(_)
Normed(cands) ==
    IF cands = << >> THEN << >>
    ELSE LET c == Head(cands)
             price_str == norm_price_str(c.txt)
             price_num == br_to_float(price_str)
             rest == Normed(Tail(cands))
         IN  IF IsInstallment(c.txt) THEN rest
             ELSE IF price_str = << >> \/ price_num = None THEN rest
             ELSE <<[p |-> price_str, v |-> price_num,
                     s |-> c.score - RankPenalty(c.txt), r |-> c.reason,
                     txt |-> c.txt, leaf |-> c.leaf]>> \o rest

\* a ranker that breaks ties by the highest price
SortKeyHighestPrice(a, b) == a.s > b.s \/ (a.s = b.s /\ a.v >= b.v)

\* a sort by score alone
SortKeyScoreOnly(a, b) == a.s >= b.s

\* the sort key (-score, price_num): a sorts no later than b
SortKeyLE(a, b) == a.s > b.s \/ (a.s = b.s /\ a.v <= b.v)

\* list.sort is stable: x, which came before the elements of s, goes in
\* front of the first element it does not sort after
RECURSIVE InsertStable(_, _)
InsertStable(x, s) ==
    IF s = << >> THEN <<x>>
    ELSE IF SortKeyLE(x, Head(s)) THEN <<x>> \o s
    ELSE <<Head(s)>> \o InsertStable(x, Tail(s))

RECURSIVE SortNormed(_)
SortNormed(s) ==
    IF s = << >> THEN << >> ELSE InsertStable(Head(s), SortNormed(Tail(s)))

DebugLen == 6

pick_best_price(cands) ==
    LET sorted == SortNormed(Normed(cands))
    IN  IF sorted = << >>
        THEN [price |-> << >>, num |-> None, debug |-> << >>, best |-> << >>]
        ELSE [price |-> sorted[1].p, num |-> sorted[1].v,
              debug |-> SubSeq(sorted, 1, IF Len(sorted) < DebugLen
                                          THEN Len(sorted) ELSE DebugLen),
              best |-> <<sorted[1]>>]

\* ------------------------------------------------------------------------
\* The price of a record (final.py scrape_products, lines 575-584)
\* ------------------------------------------------------------------------
\* soup.get_text(' '): the text nodes of the page
PageText(page) == BoxText(page)

\* CURRENCY_RE.findall(all_text) as the set of matched amounts
RegexPrices(page) ==
    {PageText(page)[i + 1].c : i \in CURRENCY_RE_matches(PageText(page))}

SetMin(S) == CHOOSE x \in S : \A y \in S : x <= y

\* a caller that prefers the lowest amount of the page text to the ranker
FinishPriceRegexFirst(got, page) ==
        IF RegexPrices(page) # {}
        THEN [price |-> norm_price_str(<<Tok("r$"), Num(SetMin(RegexPrices(page)))>>),
              num |-> SetMin(RegexPrices(page)),
              via |-> "fallback:regex-min", best |-> << >>]
        ELSE [price |-> got.price, num |-> br_to_float(got.price),
              via |-> IF got.price = << >> THEN "none" ELSE "ranker",
              best |-> got.best]

\* a fallback that sets the price string and forgets the numeric price
FinishPriceStringOnly(got, page) ==
        IF got.price # << >>
        THEN [price |-> got.price, num |-> br_to_float(got.price),
              via |-> "ranker", best |-> got.best]
        ELSE IF RegexPrices(page) # {}
        THEN [price |-> norm_price_str(<<Tok("r$"), Num(SetMin(RegexPrices(page)))>>),
              num |-> br_to_float(got.price),
              via |-> "fallback:regex-min", best |-> << >>]
        ELSE [price |-> << >>, num |-> br_to_float(<< >>), via |-> "none",
              best |-> << >>]

\* lines 577-584: price, price_num and the source tag after the regex
\* fallback, given what the parser's pick_best_price returned
FinishPrice(got, page) ==
        IF got.price # << >>
        THEN [price |-> got.price, num |-> br_to_float(got.price),
              via |-> "ranker", best |-> got.best]
        ELSE IF RegexPrices(page) # {}
        THEN [price |-> norm_price_str(<<Tok("r$"), Num(SetMin(RegexPrices(page)))>>),
              num |-> SetMin(RegexPrices(page)),
              via |-> "fallback:regex-min", best |-> << >>]
        ELSE [price |-> << >>, num |-> br_to_float(<< >>), via |-> "none",
              best |-> << >>]

\* the parser's price (line 575) followed by lines 577-584
ItemPrice(page, hint) ==
    FinishPrice(pick_best_price(ParserCands(page, hint)), page)

\* ------------------------------------------------------------------------
\* The combined pipeline's price choice (scraper.py)
\* ------------------------------------------------------------------------
S_SELECTORS_PRICE_COMMON ==
    <<"[itemprop=price]", "[data-testid*=price]", "[class*=price]">>
S_SELECTORS_PRICE_MAGALU ==
    <<"[data-testid=price-value]", "[data-testid=price-big]",
      "[data-testid=price-amount]", "[class*=Price]", "[itemprop=price]">>

\* scraper.py collect_dom_prices: no class filter, no score
s_collect_dom_prices(page, hint) ==
    LET sels == (IF hint = "magalu" THEN S_SELECTORS_PRICE_MAGALU ELSE << >>)
                \o S_SELECTORS_PRICE_COMMON
        keep(sel) == SelectSeq(Elements(page),
                        LAMBDA e : /\ Matches(sel, e) /\ e.txt # << >>
                                   /\ HasPriceText(e.txt))
    IN  Concat([k \in 1..Len(sels) |->
                  [i \in 1..Len(keep(sels[k])) |-> keep(sels[k])[i].txt]])

\* scraper.py pick_best_price: the lowest amount among the candidates
s_pick_best_price(cands) ==
    LET vals == {br_to_float(norm_price_str(cands[i])) : i \in 1..Len(cands)}
                \ {None}
    IN  IF vals = {} THEN [price |-> << >>, num |-> None]
        ELSE [price |-> <<Tok("r$"), Num(SetMin(vals))>>, num |-> SetMin(vals)]

s_ItemPrice(page, hint) ==
    s_pick_best_price(jsonld_prices(page) \o s_collect_dom_prices(page, hint))

\* ------------------------------------------------------------------------
\* Price strings, character by character (final.py lines 28-29, 64-75, 105-117)
\* ------------------------------------------------------------------------
\* A string is a sequence of one-character strings.  Amounts are counted in
\* cents; a float holding an amount of at most two decimals is taken as exact.
MaxReais == 12

DigitChars == <<"0", "1", "2", "3", "4", "5", "6", "7", "8", "9">>
IsDigit(ch) == \E d \in 1..10 : DigitChars[d] = ch
DigitVal(ch) == (CHOOSE d \in 1..10 : DigitChars[d] = ch) - 1
IsDigitAt(str, i) == i \in 1..Len(str) /\ IsDigit(str[i])
AllDigits(str) == str # << >> /\ \A i \in 1..Len(str) : IsDigit(str[i])

\* str(n) of a natural number
RECURSIVE NatStr(_)
NatStr(n) ==
    IF n < 10 THEN <<DigitChars[n + 1]>>
    ELSE NatStr(n \div 10) \o <<DigitChars[(n % 10) + 1]>>

\* int(digits)
RECURSIVE ToNat(_)
ToNat(str) ==
    IF str = << >> THEN 0
    ELSE ToNat(SubSeq(str, 1, Len(str) - 1)) * 10 + DigitVal(str[Len(str)])

\* s.replace(a, b) for one-character a
Replace(str, a, b) ==
    Concat([i \in 1..Len(str) |-> IF str[i] = a THEN b ELSE <<str[i]>>])

IndexOf(str, ch) ==
    IF \E i \in 1..Len(str) : str[i] = ch
    THEN CHOOSE i \in 1..Len(str) : str[i] = ch /\ \A j \in 1..(i - 1) : str[j] # ch
    ELSE 0

\* float(str) as cents: digits, or digits '.' one or two digits; NonFinite for
\* inf and nan; None when float() raises
NonFinite == 0 - 2
PyFloat(str) ==
    LET dot == IndexOf(str, ".")
        ip == IF dot = 0 THEN str ELSE SubSeq(str, 1, dot - 1)
        fp == IF dot = 0 THEN << >> ELSE SubSeq(str, dot + 1, Len(str))
    IN  IF str \in {<<"i", "n", "f">>, <<"n", "a", "n">>} THEN NonFinite
        ELSE IF ~AllDigits(ip) THEN None
        ELSE IF dot = 0 THEN ToNat(ip) * 100
        ELSE IF ~AllDigits(fp) \/ Len(fp) > 2 THEN None
        ELSE ToNat(ip) * 100 + (IF Len(fp) = 1 THEN ToNat(fp) * 10 ELSE ToNat(fp))

\* format(n, ','): a comma before every group of three digits counted from
\* the right
RECURSIVE PyGroup(_)
PyGroup(digits) ==
    IF Len(digits) <= 3 THEN digits
    ELSE PyGroup(SubSeq(digits, 1, Len(digits) - 3)) \o <<",">>
         \o SubSeq(digits, Len(digits) - 2, Len(digits))

\* f"{f:,.2f}" of a float of c cents
PyFormat2(c) ==
    IF c = NonFinite THEN <<"i", "n", "f">>
    ELSE PyGroup(NatStr(c \div 100)) \o <<".">>
         \o <<DigitChars[((c % 100) \div 10) + 1], DigitChars[(c % 10) + 1]>>

\* NUMBER_RE = \d{1,3}(?:\.\d{3})*,\d{2}
\* the ".ddd" groups that follow one another from position j
RECURSIVE GroupsAt(_, _)
GroupsAt(str, j) ==
    IF /\ j + 3 <= Len(str) /\ str[j] = "."
       /\ IsDigitAt(str, j + 1) /\ IsDigitAt(str, j + 2) /\ IsDigitAt(str, j + 3)
    THEN 1 + GroupsAt(str, j + 4)
    ELSE 0

\* ",dd" at position j
CentsAt(str, j) ==
    /\ j + 2 <= Len(str) /\ str[j] = ","
    /\ IsDigitAt(str, j + 1) /\ IsDigitAt(str, j + 2)

\* the end of the match of NUMBER_RE that starts at i, 0 when none: greedy,
\* the longest run of leading digits first, then the most groups
NumberMatchEnd(str, i) ==
    LET opts == {o \in (1..3) \X (0..(Len(str) \div 4)) :
                    /\ \A d \in 0..(o[1] - 1) : IsDigitAt(str, i + d)
                    /\ o[2] <= GroupsAt(str, i + o[1])
                    /\ CentsAt(str, i + o[1] + 4 * o[2])}
        best == CHOOSE o \in opts :
                    \A q \in opts : q[1] < o[1] \/ (q[1] = o[1] /\ q[2] <= o[2])
    IN  IF opts = {} THEN 0 ELSE i + best[1] + 4 * best[2] + 2

\* NUMBER_RE.search(str).group(0), the empty string when there is no match
RECURSIVE NumberSearchFrom(_, _)
NumberSearchFrom(str, i) ==
    IF i > Len(str) THEN << >>
    ELSE IF NumberMatchEnd(str, i) # 0 THEN SubSeq(str, i, NumberMatchEnd(str, i))
    ELSE NumberSearchFrom(str, i + 1)

NUMBER_RE_group(str) == NumberSearchFrom(str, 1)

\* norm_price_str on characters
norm_price_str_chars(str) ==
    IF NUMBER_RE_group(str) = << >> THEN << >>
    ELSE <<"R", "$", " ">> \o NUMBER_RE_group(str)

\* a conversion that leaves the thousands dots in place
br_to_float_chars_keeps_dots(str) ==
    IF str = << >> \/ NUMBER_RE_group(str) = << >> THEN None
    ELSE PyFloat(Replace(NUMBER_RE_group(str), ",", <<".">>))

\* br_to_float on characters
br_to_float_chars(str) ==
    IF str = << >> \/ NUMBER_RE_group(str) = << >> THEN None
    ELSE PyFloat(Replace(Replace(NUMBER_RE_group(str), ".", << >>), ",", <<".">>))

\* a normalisation that keeps the separators of format(f, ',.2f')
jsonld_norm_chars_no_swap(v) ==
    IF v # << >> /\ IndexOf(v, ",") # 0 /\ NUMBER_RE_group(v) # << >>
    THEN <<norm_price_str_chars(v)>>
    ELSE IF PyFloat(v) = None THEN << >>
    ELSE <<(<<"R", "$", " ">> \o PyFormat2(PyFloat(v)))>>

\* the second loop of jsonld_prices for one value v = str(offer value)
jsonld_norm_chars(v) ==
    IF v # << >> /\ IndexOf(v, ",") # 0 /\ NUMBER_RE_group(v) # << >>
    THEN <<norm_price_str_chars(v)>>
    ELSE IF PyFloat(v) = None THEN << >>
    ELSE <<(<<"R", "$", " ">>
            \o Replace(Replace(Replace(PyFormat2(PyFloat(v)), ",", <<"X">>),
                               ".", <<",">>), "X", <<".">>))>>

\* pick_best_price on candidates tagged jsonld (score 5 each): the filter of
\* line 150, then the lowest value
pick_jsonld_chars(ps) ==
    LET kept == SelectSeq(ps, LAMBDA q : /\ norm_price_str_chars(q) # << >>
                                         /\ br_to_float_chars(norm_price_str_chars(q)) # None)
        val(q) == br_to_float_chars(norm_price_str_chars(q))
        low == CHOOSE i \in 1..Len(kept) :
                   /\ \A j \in 1..Len(kept) : val(kept[i]) <= val(kept[j])
                   /\ \A j \in 1..(i - 1) : val(kept[j]) # val(kept[i])
    IN  IF kept = << >> THEN [price |-> << >>, num |-> None]
        ELSE [price |-> norm_price_str_chars(kept[low]), num |-> val(kept[low])]

\* the offer values of the documents: amounts of c cents written as a
\* dot-decimal string ("1299.90"), as a JSON number (1299.9, 1299), as a
\* grouped comma-decimal string ("1.299,90"), as a comma-decimal string
\* without groups ("1299,90"), and strings that are no amount
FmtReais == (0..MaxReais) \cup {999, 1000, 1299, 12345, 999999, 1000000, 1234567}
FmtCents == {r * 100 + k : r \in FmtReais, k \in {0, 5, 90, 99}}
Pad2(k) == <<DigitChars[(k \div 10) + 1], DigitChars[(k % 10) + 1]>>
DotString(c) == NatStr(c \div 100) \o <<".">> \o Pad2(c % 100)
JsonNumber(c) ==
    IF c % 100 = 0 THEN NatStr(c \div 100)
    ELSE IF c % 10 = 0 THEN NatStr(c \div 100) \o <<".">> \o <<DigitChars[((c % 100) \div 10) + 1]>>
    ELSE DotString(c)
CommaFlat(c) == NatStr(c \div 100) \o <<",">> \o Pad2(c % 100)
CommaGrouped(c) == Replace(PyGroup(NatStr(c \div 100)), ",", <<".">>) \o <<",">> \o Pad2(c % 100)
OfferValues ==
    {[form |-> "dotstr", c |-> c, str |-> DotString(c)] : c \in FmtCents}
    \cup {[form |-> "number", c |-> c, str |-> JsonNumber(c)] : c \in FmtCents}
    \cup {[form |-> "commagrouped", c |-> c, str |-> CommaGrouped(c)] : c \in FmtCents}
    \cup {[form |-> "commaflat", c |-> c, str |-> CommaFlat(c)] : c \in FmtCents}
    \cup {[form |-> "other", c |-> 0, str |-> x] :
             x \in {<<"i", "n", "f">>, <<"a", "b", "c">>, <<"1", "2", ",", "5">>, << >>}}

\* ------------------------------------------------------------------------
\* Ingest into the database (scraper.py 68-74, 196-272; populando_db.py)
\* ------------------------------------------------------------------------
\* Names are strings of characters over the letters of IngestRows.
LowerOf(ch) ==
    CASE ch = "K" -> "k" [] ch = "B" -> "b" [] ch = "M" -> "m"
      [] ch = "L" -> "l" [] ch = "S" -> "s" [] ch = "X" -> "x" [] ch = "A" -> "a"
      [] ch = "H" -> "h" [] ch = "T" -> "t" [] ch = "P" -> "p" [] ch = "W" -> "w"
      [] ch = "D" -> "d" [] ch = "R" -> "r" [] ch = "U" -> "u"
      [] OTHER -> ch
Lower(str) == [i \in 1..Len(str) |-> LowerOf(str[i])]
\* \s
SpaceChars == {" ", "\t"}
IsSpace(ch) == ch \in SpaceChars
\* \w
IsWordChar(ch) ==
    \/ IsDigit(ch) \/ ch = "_"
    \/ LowerOf(ch) \in {"a", "b", "g", "j", "k", "l", "m", "o", "s", "u", "x"}

\* s.strip()
RECURSIVE LStrip(_)
LStrip(str) ==
    IF str # << >> /\ IsSpace(Head(str)) THEN LStrip(Tail(str)) ELSE str
RECURSIVE RStrip(_)
RStrip(str) ==
    IF str # << >> /\ IsSpace(str[Len(str)])
    THEN RStrip(SubSeq(str, 1, Len(str) - 1)) ELSE str
Strip(str) == RStrip(LStrip(str))

\* re.sub(cls+, rep, str): every maximal run of characters of the class
\* becomes rep
RECURSIVE SubRuns(_, _, _, _)
SubRuns(str, cls, r, inRun) ==
    IF str = << >> THEN << >>
    ELSE IF Head(str) \in cls
         THEN (IF inRun THEN << >> ELSE r) \o SubRuns(Tail(str), cls, r, TRUE)
         ELSE <<Head(str)>> \o SubRuns(Tail(str), cls, r, FALSE)

\* s.strip('-')
RECURSIVE StripHyphens(_)
StripHyphens(str) ==
    IF str # << >> /\ Head(str) = "-" THEN StripHyphens(Tail(str))
    ELSE IF str # << >> /\ str[Len(str)] = "-"
    THEN StripHyphens(SubSeq(str, 1, Len(str) - 1))
    ELSE str

Truncate(str, n) == IF Len(str) <= n THEN str ELSE SubSeq(str, 1, n)

\* slugify(s, max_len=100)
slugify(str) ==
    LET low == Lower(Strip(str))
        kept == SelectSeq(low, LAMBDA ch : IsWordChar(ch) \/ IsSpace(ch) \/ ch = "-")
        dashed == SubRuns(kept, SpaceChars \cup {"_", "-"}, <<"-">>, FALSE)
    IN  Truncate(StripHyphens(dashed), 100)

\* hashlib.sha1(norm).hexdigest()[:20]: the digest is taken as one-to-one on
\* the names of the model and stands as the normalised name itself
Sha1Prefix(norm) == norm

\* a product key made without lower-casing the name
ProductCodeCaseSensitive(produto) ==
    <<"p", "_">> \o Sha1Prefix(SubRuns(Strip(produto), SpaceChars, <<" ">>, FALSE))

\* the code of get_or_create_product: "p_" + digest of the stripped,
\* lower-cased name with every whitespace run made one space
ProductCode(produto) ==
    <<"p", "_">> \o Sha1Prefix(SubRuns(Lower(Strip(produto)), SpaceChars, <<" ">>, FALSE))

Desconhecido == <<"D", "e", "s", "c">>
desconhecido == <<"d", "e", "s", "c">>

\* the code and the stored name of a vendor: scraper.py puts "desconhecido"
\* for an empty name, populando_db.py does not
FornecedorCode(p, name) ==
    IF p = "scraper" /\ name = << >> THEN slugify(desconhecido) ELSE slugify(name)
FornecedorName(p, name) ==
    IF p = "scraper" THEN Truncate(IF name = << >> THEN Desconhecido ELSE name, 255)
    ELSE Truncate(Strip(name), 255)
SellerName(p, name) ==
    IF p = "scraper" THEN Truncate(IF name = << >> THEN Desconhecido ELSE name, 255)
    ELSE Truncate(Strip(name), 255)

\* an upsert that also overwrites the stored name of the row it finds
UpsertFornecedorRenames(tbl, p, name) ==
    LET code == FornecedorCode(p, name)
        hit == {k \in 1..Len(tbl) : tbl[k].code = code}
    IN  IF hit # {}
        THEN {[tbl |-> [tbl EXCEPT ![k].name = FornecedorName(p, name)], id |-> k] :
                 k \in hit}
        ELSE {[tbl |-> Append(tbl, [name |-> FornecedorName(p, name),
                                    code |-> Truncate(code, 100)]),
               id |-> Len(tbl) + 1]}

\* get_or_create_fornecedor: SELECT by code, INSERT when there is no row;
\* the possible (table, id) results (fetchone gives any matching row)
get_or_create_fornecedor(tbl, p, name) ==
    LET code == FornecedorCode(p, name)
        hit == {k \in 1..Len(tbl) : tbl[k].code = code}
    IN  IF hit # {}
        THEN {[tbl |-> tbl, id |-> k] : k \in hit}
        ELSE {[tbl |-> Append(tbl, [name |-> FornecedorName(p, name),
                                    code |-> Truncate(code, 100)]),
               id |-> Len(tbl) + 1]}

\* get_or_create_seller: SELECT by (name, fk_fornecedor), INSERT when none
get_or_create_seller(tbl, p, name, fk) ==
    LET n == SellerName(p, name)
        hit == {k \in 1..Len(tbl) : tbl[k].name = n /\ tbl[k].fk_fornecedor = fk}
    IN  IF hit # {}
        THEN {[tbl |-> tbl, id |-> k] : k \in hit}
        ELSE {[tbl |-> Append(tbl, [name |-> n, fk_fornecedor |-> fk]),
               id |-> Len(tbl) + 1]}

\* get_or_create_product: SELECT by code, INSERT when none (brand, model and
\* variant are derived from the name and play no part in the lookup)
get_or_create_product(tbl, produto) ==
    LET code == ProductCode(produto)
        hit == {k \in 1..Len(tbl) : tbl[k].code = code}
    IN  IF hit # {}
        THEN {[tbl |-> tbl, id |-> k] : k \in hit}
        ELSE {[tbl |-> Append(tbl, [code |-> Truncate(code, 100), model |-> produto]),
               id |-> Len(tbl) + 1]}

\* an insert that skips a row whose product, seller and vendor already have
\* a listing
InsertListRowOnce(tbl, url, fk) ==
    IF \E k \in 1..Len(tbl) :
          /\ tbl[k].fk_product = fk.p /\ tbl[k].fk_seller = fk.s
          /\ tbl[k].fk_fornecedor = fk.f
    THEN tbl
    ELSE Append(tbl, [url |-> url, fk_product |-> fk.p, fk_seller |-> fk.s,
                      fk_fornecedor |-> fk.f])

\* insert_list_row: INSERT INTO List (...) VALUES (...)
insert_list_row(tbl, url, fk) ==
    Append(tbl, [url |-> url, fk_product |-> fk.p, fk_seller |-> fk.s,
                 fk_fornecedor |-> fk.f])

\* ------------------------------------------------------------------------
\* pick_parser (final.py 490-504)
\* ------------------------------------------------------------------------
Contains(str, sub) ==
    \E i \in 1..(Len(str) - Len(sub) + 1) : SubSeq(str, i, i + Len(sub) - 1) = sub
StartsWith(str, pre) == Len(pre) <= Len(str) /\ SubSeq(str, 1, Len(pre)) = pre

Letters ==
    {"a", "b", "c", "d", "e", "f", "g", "h", "i", "j", "k", "l", "m", "n", "o",
     "p", "q", "r", "s", "t", "u", "v", "w", "x", "y", "z"}
IsAlpha(ch) == LowerOf(ch) \in Letters
IsSchemeChar(ch) == IsAlpha(ch) \/ IsDigit(ch) \/ ch \in {"+", "-", "."}

\* urlsplit: what follows the scheme; "x:" is a scheme when x starts with a
\* letter and holds scheme characters only
AfterScheme(url) ==
    LET i == IndexOf(url, ":")
    IN  IF /\ i > 1 /\ IsAlpha(url[1])
           /\ \A j \in 1..(i - 1) : IsSchemeChar(url[j])
        THEN SubSeq(url, i + 1, Len(url))
        ELSE url

\* _splitnetloc: the text between "//" and the first of / ? #
RECURSIVE NetlocEnd(_, _)
NetlocEnd(rest, j) ==
    IF j > Len(rest) \/ rest[j] \in {"/", "?", "#"} THEN j - 1
    ELSE NetlocEnd(rest, j + 1)

\* urlparse(url).netloc, or the ValueError of an unbalanced bracket
urlparse_netloc(url) ==
    LET rest == AfterScheme(url)
        net == IF StartsWith(rest, <<"/", "/">>)
               THEN SubSeq(rest, 3, NetlocEnd(rest, 3)) ELSE << >>
        open == \E j \in 1..Len(net) : net[j] = "["
        close == \E j \in 1..Len(net) : net[j] = "]"
    IN  IF open # close THEN [raised |-> TRUE, netloc |-> << >>]
        ELSE [raised |-> FALSE, netloc |-> net]

DOMAIN_PARSERS ==
    <<[k |-> <<"m", "a", "g", "a", "z", "i", "n", "e", "l", "u", "i", "z", "a", ".", "c", "o", "m", ".", "b", "r">>,
       fn |-> "parse_magalu"],
      [k |-> <<"m", "a", "g", "a", "l", "u", ".", "c", "o", "m">>,
       fn |-> "parse_magalu"],
      [k |-> <<"k", "a", "b", "u", "m", ".", "c", "o", "m", ".", "b", "r">>,
       fn |-> "parse_kabum"]>>

\* a lookup that lets a later key of the table win
RECURSIVE DomainLookupLastKey(_, _)
DomainLookupLastKey(net, i) ==
    IF i > Len(DOMAIN_PARSERS) THEN "parse_generic"
    ELSE IF DomainLookupLastKey(net, i + 1) # "parse_generic"
    THEN DomainLookupLastKey(net, i + 1)
    ELSE IF Contains(net, DOMAIN_PARSERS[i].k) THEN DOMAIN_PARSERS[i].fn
    ELSE "parse_generic"

\* for k, fn in DOMAIN_PARSERS.items(): if k in net: return fn
RECURSIVE DomainLookup(_, _)
DomainLookup(net, i) ==
    IF i > Len(DOMAIN_PARSERS) THEN "parse_generic"
    ELSE IF Contains(net, DOMAIN_PARSERS[i].k) THEN DOMAIN_PARSERS[i].fn
    ELSE DomainLookup(net, i + 1)

pick_parser(url) ==
    LET p == urlparse_netloc(url)
        net == Lower(p.netloc)
        host == IF StartsWith(net, <<"w", "w", "w", ".">>)
                THEN SubSeq(net, 5, Len(net)) ELSE net
    IN  IF p.raised THEN "parse_generic" ELSE DomainLookup(host, 1)

\* URLs put together from a scheme, a www prefix, a host and a tail; with
\* each host the positions of the table keys it contains
UrlSchemes == {<<"h", "t", "t", "p", "s", ":", "/", "/">>, <<"H", "T", "T", "P", ":", "/", "/">>, << >>}
UrlWww == {<< >>, <<"w", "w", "w", ".">>, <<"W", "W", "W", ".">>}
UrlHosts ==
    {[txt |-> <<"m", "a", "g", "a", "z", "i", "n", "e", "l", "u", "i", "z", "a", ".", "c", "o", "m", ".", "b", "r">>,
      keys |-> {1}, bracket |-> FALSE],
     [txt |-> <<"m", "a", "g", "a", "l", "u", ".", "c", "o", "m">>,
      keys |-> {2}, bracket |-> FALSE],
     [txt |-> <<"k", "a", "b", "u", "m", ".", "c", "o", "m", ".", "b", "r">>,
      keys |-> {3}, bracket |-> FALSE],
     [txt |-> <<"K", "a", "B", "u", "M", ".", "c", "o", "m", ".", "b", "r">>,
      keys |-> {3}, bracket |-> FALSE],
     [txt |-> <<"m", ".", "m", "a", "g", "a", "l", "u", ".", "c", "o", "m", ".", "b", "r">>,
      keys |-> {2}, bracket |-> FALSE],
     [txt |-> <<"k", "a", "b", "u", "m", ".", "c", "o", "m", ".", "b", "r", ".", "m", "a", "g", "a", "l", "u", ".", "c", "o", "m">>,
      keys |-> {2, 3}, bracket |-> FALSE],
     [txt |-> <<"l", "o", "j", "a", ".", "c", "o", "m">>,
      keys |-> {}, bracket |-> FALSE],
     [txt |-> <<"k", "a", "b", "u", "m", ".", "c", "o", "m">>,
      keys |-> {}, bracket |-> FALSE],
     [txt |-> <<"[", "k", "a", "b", "u", "m", ".", "c", "o", "m", ".", "b", "r">>,
      keys |-> {3}, bracket |-> TRUE],
     [txt |-> <<"k", "a", "b", "u", "m", ".", "c", "o", "m", ".", "b", "r", ":", "8", "0", "8", "0">>,
      keys |-> {3}, bracket |-> FALSE]}
UrlTails == {<< >>, <<"/", "p">>, <<"/", "?", "u", "=", "m", "a", "g", "a", "l", "u", ".", "c", "o", "m">>}
ParserUrls ==
    {[scheme |-> sc, host |-> h,
      url |-> sc \o w \o h.txt \o tl] :
        sc \in UrlSchemes, w \in UrlWww, h \in UrlHosts, tl \in UrlTails}

\* ------------------------------------------------------------------------
\* pick_best_price on characters (final.py 143-156)
\* ------------------------------------------------------------------------
\* "e'" stands for the one character e with an acute accent
InstallmentKeys ==
    {<<"x", " ", "d", "e", " ", "r", "$">>, <<"x", " ", "d", "e", " ">>,
     <<"e", "m", " ", "a", "t", "e'">>, <<"p", "a", "r", "c", "e", "l", "a">>,
     <<"p", "a", "r", "c", "e", "l", "a", "s">>}
IsInstallmentChars(low) == \E k \in InstallmentKeys : Contains(low, k)

\* (' de ' in low or ' de r$' in low) and ' por ' not in low
RankPenaltyChars(low) ==
    IF /\ Contains(low, <<" ", "d", "e", " ">>) \/ Contains(low, <<" ", "d", "e", " ", "r", "$">>)
       /\ ~Contains(low, <<" ", "p", "o", "r", " ">>)
    THEN 2 ELSE 0

RECURSIVE NormedChars(_)
NormedChars(cands) ==
    IF cands = << >> THEN << >>
    ELSE LET c == Head(cands)
             low == Lower(c.txt)
             price_str == norm_price_str_chars(c.txt)
             price_num == br_to_float_chars(price_str)
             rest == NormedChars(Tail(cands))
         IN  IF IsInstallmentChars(low) THEN rest
             ELSE IF price_str = << >> \/ price_num = None THEN rest
             ELSE <<[p |-> price_str, v |-> price_num,
                     s |-> c.score - RankPenaltyChars(low), r |-> c.reason,
                     txt |-> c.txt]>> \o rest

pick_best_price_chars(cands) ==
    LET sorted == SortNormed(NormedChars(cands))
    IN  IF sorted = << >>
        THEN [price |-> << >>, num |-> None, debug |-> << >>, best |-> << >>]
        ELSE [price |-> sorted[1].p, num |-> sorted[1].v,
              debug |-> SubSeq(sorted, 1, IF Len(sorted) < DebugLen
                                          THEN Len(sorted) ELSE DebugLen),
              best |-> <<sorted[1]>>]

\* ------------------------------------------------------------------------
\* The batch: input rows, browser handles, one record per URL
\* ------------------------------------------------------------------------
VARIABLES
    prog,       \* which program runs: "final" (final.py) or "scraper" (scraper.py)
    input,      \* the cells of the link columns of the spreadsheet, row by row
    items,      \* normalize_input_dataframe(raw)
    pc,         \* position in scrape_products
    idx,        \* index of the item of the loop (1-based; 0 before the loop)
    drv,        \* scrape_products' driver variable (0 is None)
    ldrv,       \* ensure_driver_and_get's driver variable (0 is None)
    hs,         \* the handles created so far: "ok", "broken" (session unusable) or "quit"
    attempt,    \* ensure_driver_and_get's loop variable
    lastErr,    \* last_err
    cur,        \* the fields of the record being assembled, with its history
    results,    \* the results list
    output,     \* rows of the written output file, None when not written
    navOnQuit,  \* history: driver.get was issued on a handle already quit
    slept       \* history: how many times the loop's time.sleep has returned

VARIABLES
    ppage,      \* the page given to the price pipeline
    phint,      \* the domain hint of the parser
    ppc,        \* position in the price pipeline
    pcands,     \* the candidate list
    pres        \* the result of the step

VARIABLES
    fval,       \* the offer value of the structured data: its form and str(v)
    fpc,        \* position in the path of that value to the record
    fcands,     \* what jsonld_prices returns
    fres        \* price string and numeric price

VARIABLES
    iprog,          \* which ingest runs: "scraper" (ingest_dataframe) or "populando" (main)
    ipc,            \* position in the loop over the normalised rows
    irow,           \* the row of the loop
    ifk,            \* fk_fornecedor, fk_seller, fk_product of the row (0: not yet)
    Fornecedores,   \* the tables; the id of a row is its position
    Seller,
    Products,
    List,
    ins_ok,
    errs,
    ilog            \* history: the rows processed so far and how each ended

VARIABLES
    hfun,       \* the function under call: "pick_parser", "br_to_float", "pick_best_price"
    harg,       \* its argument
    hpc,        \* "call" before the call, "ret" after it
    hret        \* what it returned

VARIABLES
    cuniq,      \* the schema declares Fornecedores.code and Products.code UNIQUE
    crun        \* the two concurrent ingest runs: position and locals of each

\* scrape_term of magalu_scrape.py
VARIABLES
    tpc,                    \* position: "off", "site", "page", "item", "done"
    term,                   \* the search term
    last_page,              \* pages first_page..last_page of every site
    max_results_per_term,
    site,                   \* index in SITES of the site of the outer loop
    pg,                     \* page number of the inner loop
    page_items,             \* items of the parsed page not yet looked at
    seen,                   \* keys of the rows of this site
    rows,                   \* the rows collected, what scrape_term returns
    collected_count,
    tlog                    \* history: per row, the parsed item and the
                            \* answer of enrich_from_details

bvars == <<prog, input, items, pc, idx, drv, ldrv, hs, attempt, lastErr,
           cur, results, output, navOnQuit, slept>>
pvars == <<ppage, phint, ppc, pcands, pres>>
fvars == <<fval, fpc, fcands, fres>>
ivars == <<iprog, ipc, irow, ifk, Fornecedores, Seller, Products, List,
           ins_ok, errs, ilog>>
hvars == <<hfun, harg, hpc, hret>>
cvars == <<cuniq, crun>>
tvars == <<tpc, term, last_page, max_results_per_term, site, pg, page_items,
           seen, rows, collected_count, tlog>>
nvars == <<hvars, cvars, tvars>>
xvars == <<fvars, ivars, nvars>>
vars == <<bvars, pvars, xvars>>

\* pages the URLs of a batch lead to
\* a leaf element: class, data-testid, text; cmt: it also holds an HTML
\* comment in which a contextual keyword occurs (<!-- suporte -->); split:
\* its words before the amount sit in a label element of their own
\* (<span class="price"><small>por</small> R$ 80,00</span>)
Leaf(cls, tid, txt) ==
    [cls |-> cls, tid |-> tid, txt |-> txt, cmt |-> FALSE, split |-> FALSE]
Page(cls, kids, jsonld) ==
    [cls |-> cls, kids |-> kids, jsonld |-> jsonld, seller |-> "Loja",
     rating |-> "4,5 de 5", count |-> 12, ship |-> FALSE]

BatchPage(p) ==
    IF p = 1
    THEN [Page("note", <<Leaf("price", "", <<Tok("r$"), Num(8000)>>)>>, << >>)
          EXCEPT !.ship = TRUE]
    ELSE Page("note", <<Leaf("note", "", <<Tok("pix")>>)>>, << >>)
BatchPageIds == {1, 2}

\* url.startswith('http')
StartsWithHttp(url) == url \in {"http://loja/p", "https://loja/p"}

\* a cell: its text, and what the web holds behind it (whether the page can be
\* loaded by a usable session, and which page it is)
InputCells ==
    {[url |-> "nan", reach |-> FALSE, page |-> 2]}
    \cup {[url |-> "http://loja/p", reach |-> FALSE, page |-> 2]}
    \cup {[url |-> "http://loja/p", reach |-> TRUE, page |-> p] : p \in BatchPageIds}

Inputs == UNION {[1..n -> InputCells] : n \in 0..MaxRows}

\* a normalisation without the url.startswith('http') test
NormalizeKeepsAll(inp) ==
    [i \in 1..Len(inp) |->
        [url |-> inp[i].url, row |-> i, reach |-> inp[i].reach,
         page |-> inp[i].page]]

\* the rows loop of normalize_input_dataframe: the cells that hold a URL
RECURSIVE NormalizeFrom(_, _)
NormalizeFrom(inp, i) ==
    IF i > Len(inp) THEN << >>
    ELSE (IF StartsWithHttp(inp[i].url)
          THEN <<[url |-> inp[i].url, row |-> i, reach |-> inp[i].reach,
                  page |-> inp[i].page]>>
          ELSE << >>) \o NormalizeFrom(inp, i + 1)

normalize_input_dataframe(inp) == NormalizeFrom(inp, 1)

\* retries of the call of ensure_driver_and_get
Retries == 2

\* a retry loop that runs once too often
AttemptsLeftOffByOne(a) == a < Retries + 2

\* for attempt in range(retries+1)
AttemptsLeft(a) == a < Retries + 1

\* time.sleep(0.5 + attempt*0.5), in tenths of a second
RetryDelay(a) == 5 + a * 5

\* the record's fields as initialised at the top of the loop body, and the
\* history of the item (nav: outcome of each driver.get, navh: its handle,
\* delays: the arguments of the time.sleep calls of the retry loop, in tenths
\* of a second, fetch: what ensure_driver_and_get gave, parse: how the parser
\* ended, ev: the session at the navigation of scrape_one)
DefaultCur ==
    [status |-> "ok", erro |-> "", price |-> << >>, price_num |-> None,
     seller |-> "", rating |-> "", count |-> None,
     frete_valor |-> "", frete_prazo |-> "", frete_metodo |-> "",
     via |-> "none",
     nav |-> << >>, navh |-> << >>, delays |-> << >>, fetch |-> "pending",
     parse |-> "none",
     ev |-> "none"]

\* except Exception as e: status = 'erro'; erro = f'{type(e).__name__}: {e}'
ItemRaised(c, err) == [c EXCEPT !.status = "erro", !.erro = err]

\* a caller that does not look at html is None
FetchFailedKeepsOk(c, err) == [c EXCEPT !.fetch = "none"]

\* if html is None: status = 'erro'; erro = f'{err!r}'
FetchFailed(c, err) == [c EXCEPT !.status = "erro", !.erro = err, !.fetch = "none"]

\* a loop body without the except clause: the exception leaves the loop
AfterItemRaiseAborts == "abort"

\* where the loop goes when the item's try block raised: the except clause
\* falls through to results.append
AfterItemRaise == "append"

\* an ensure_driver that quits the handle and returns it all the same
EnsureReturnsQuit(old, new) == old

\* the handle ensure_driver returns after a failed probe: quit, then new_driver()
EnsureAfterProbeFail(old, new) == new

\* a caller that reports a record without a price as an error
ParsedFieldsPriceRequired(c, page) ==
    LET ip == ItemPrice(page, "")
    IN  IF ip.price = << >>
        THEN [c EXCEPT !.status = "erro", !.erro = "ValueError: no price",
                       !.parse = "ok"]
        ELSE [c EXCEPT !.price = ip.price, !.price_num = ip.num, !.via = ip.via,
                       !.seller = page.seller, !.rating = page.rating,
                       !.count = page.count, !.parse = "ok"]

\* the fields after the parser returned (line 575) and lines 576-591 ran;
\* page.ship: the page answers the shipping lookup with an option
ParsedFields(c, page) ==
    LET ip == ItemPrice(page, "")
    IN  [c EXCEPT !.price = ip.price, !.price_num = ip.num, !.via = ip.via,
                  !.seller = page.seller, !.rating = page.rating,
                  !.count = page.count,
                  !.frete_valor = IF page.ship THEN "R$ 0,00" ELSE "",
                  !.frete_prazo = IF page.ship THEN "3 dias úteis" ELSE "",
                  !.frete_metodo = IF page.ship THEN "sedex" ELSE "",
                  !.parse = "ok"]

\* a parser whose fields are assigned one by one before the shipping lookup
ParserRaisedAfterAssign(c, page) == [ParsedFields(c, page) EXCEPT !.parse = "raise"]

\* the fields when the parser raised: the tuple assignment of line 575 never ran
ParserRaisedFields(c, page) == [c EXCEPT !.parse = "raise"]

\* scrape_one's fields after a successful navigation (lines 436-460)
ScrapedFields(c, page) ==
    LET ip == s_ItemPrice(page, "")
    IN  [c EXCEPT !.price = ip.price, !.price_num = ip.num,
                  !.seller = page.seller, !.rating = page.rating,
                  !.count = page.count, !.parse = "ok"]

Quit(h) == IF h = 0 THEN hs ELSE [hs EXCEPT ![h] = "quit"]

PriceIdle ==
    /\ ppage = Page("note", << >>, << >>) /\ phint = "" /\ ppc = "idle"
    /\ pcands = << >> /\ pres = << >>

FmtIdle ==
    /\ fval = [form |-> "other", c |-> 0, str |-> << >>] /\ fpc = "idle"
    /\ fcands = << >> /\ fres = [price |-> << >>, num |-> None]

\* rows of the normalised frame: vendor, seller ('' when the column is
\* empty), product, url
IngestRow(f, sl, pr, u) ==
    [fornecedor_name |-> f, seller_name |-> sl, produto |-> pr, url |-> u]
IngestRows ==
    {IngestRow(<<"K", "a", "B", "u", "m">>, << >>, <<"S", "2", "3", " ", "X">>, "u1"),
     IngestRow(<<"k", "a", "b", "u", "m", "!">>, <<"L", "o", "j", "a">>,
               <<"s", "2", "3", " ", "\t", "x", " ">>, "u2"),
     IngestRow(<<"M", "a", "g", "a", "l", "u">>, <<"L", "o", "j", "a">>,
               <<"S", "2", "3", " ", "X">>, "u3"),
     IngestRow(<<"M", "a", "g", "a", "l", "u">>, << >>, <<"A", "1", "5">>, "u4")}
NoRow == IngestRow(<< >>, << >>, << >>, "")
NoFk == [f |-> 0, s |-> 0, p |-> 0]

IngestIdle ==
    /\ iprog = "none" /\ ipc = "off" /\ irow = NoRow /\ ifk = NoFk
    /\ Fornecedores = << >> /\ Seller = << >> /\ Products = << >> /\ List = << >>
    /\ ins_ok = 0 /\ errs = 0 /\ ilog = << >>

CallIdle == hfun = "none" /\ harg = << >> /\ hpc = "off" /\ hret = << >>
ConcIdle == cuniq = FALSE /\ crun = << >>
TermIdle ==
    /\ tpc = "off" /\ term = << >> /\ last_page = 0 /\ max_results_per_term = 0
    /\ site = 0 /\ pg = 0 /\ page_items = << >> /\ seen = {} /\ rows = << >>
    /\ collected_count = 0 /\ tlog = << >>
NewIdle == CallIdle /\ ConcIdle /\ TermIdle

OthersIdle == FmtIdle /\ IngestIdle /\ NewIdle

Init ==
    /\ prog \in {"final", "scraper"}
    /\ input \in Inputs
    /\ items = << >> /\ pc = "start" /\ idx = 0 /\ drv = 0 /\ ldrv = 0
    /\ hs = << >> /\ attempt = 0 /\ lastErr = ""
    /\ cur = DefaultCur /\ results = << >> /\ output = None
    /\ navOnQuit = FALSE /\ slept = 0
    /\ PriceIdle
    /\ OthersIdle

\* ------------------------------------------------------------------------
\* scrape_products
\* ------------------------------------------------------------------------
\* lines 553-557 of final.py, 507-513 of scraper.py: read, normalise, raise on
\* an empty batch; scraper.py then creates the session before the loop
Start ==
    /\ pc = "start"
    /\ items' = normalize_input_dataframe(input)
    /\ IF items' = << >>
       THEN /\ pc' = "raised"
            /\ UNCHANGED <<idx, drv, hs>>
       ELSE IF prog = "final"
       THEN /\ pc' = "item" /\ idx' = 1
            /\ UNCHANGED <<drv, hs>>
       ELSE \E created \in BOOLEAN :
               IF created
               THEN /\ hs' = Append(hs, "ok") /\ drv' = Len(hs) + 1
                    /\ pc' = "item" /\ idx' = 1
               ELSE /\ pc' = "raised"
                    /\ UNCHANGED <<idx, drv, hs>>
    /\ UNCHANGED <<prog, input, ldrv, attempt, lastErr, cur, results,
                   output, navOnQuit, slept, pvars, xvars>>

\* the head of the for loop: the next item's defaults, or the end of the loop;
\* for final.py the call of ensure_driver_and_get(driver, url, retries=2)
LoopHead ==
    /\ pc = "item"
    /\ IF idx > Len(items)
       THEN /\ pc' = "finally"
            /\ UNCHANGED <<cur, attempt, ldrv, lastErr>>
       ELSE /\ cur' = DefaultCur
            /\ attempt' = 0 /\ lastErr' = ""
            /\ ldrv' = IF prog = "final" THEN drv ELSE 0
            /\ pc' = IF prog = "final" THEN "ensure" ELSE "scrape_one"
    /\ UNCHANGED <<prog, input, items, idx, drv, hs, results, output,
                   navOnQuit, slept, pvars, xvars>>

\* what driver.current_url can do on a handle in state st
ProbeOutcomes(st) ==
    IF st = "ok" THEN {"ok", "invalid", "wde", "other"}
    ELSE {"invalid", "wde", "other"}

\* final.py ensure_driver, called at the top of each attempt (line 532).
\* new_driver may itself raise; an exception ensure_driver does not catch
\* leaves ensure_driver_and_get (its variables are gone) and reaches the
\* except clause of the item.
EnsureDriver ==
    /\ pc = "ensure" /\ prog = "final"
    /\ IF ldrv = 0
       THEN \E created \in BOOLEAN :
               IF created
               THEN /\ hs' = Append(hs, "ok") /\ ldrv' = Len(hs) + 1
                    /\ pc' = "get" /\ UNCHANGED <<cur, attempt, lastErr>>
               ELSE /\ cur' = ItemRaised(cur, "WebDriverException: new_driver")
                    /\ pc' = AfterItemRaise
                    /\ ldrv' = 0 /\ attempt' = 0 /\ lastErr' = ""
                    /\ UNCHANGED hs
       ELSE \E po \in ProbeOutcomes(hs[ldrv]) :
               CASE po = "ok" ->
                      /\ pc' = "get" /\ UNCHANGED <<hs, ldrv, cur, attempt, lastErr>>
                 [] po \in {"invalid", "wde"} ->
                      \E created \in BOOLEAN :
                         IF created
                         THEN /\ hs' = Append(Quit(ldrv), "ok")
                              /\ ldrv' = EnsureAfterProbeFail(ldrv, Len(hs) + 1)
                              /\ pc' = "get" /\ UNCHANGED <<cur, attempt, lastErr>>
                         ELSE /\ hs' = Quit(ldrv)
                              /\ cur' = ItemRaised(cur, "WebDriverException: new_driver")
                              /\ pc' = AfterItemRaise
                              /\ ldrv' = 0 /\ attempt' = 0 /\ lastErr' = ""
                 [] OTHER ->
                      /\ hs' = [hs EXCEPT ![ldrv] = IF @ = "quit" THEN "quit" ELSE "broken"]
                      /\ cur' = ItemRaised(cur, "MaxRetryError: current_url")
                      /\ pc' = AfterItemRaise
                      /\ ldrv' = 0 /\ attempt' = 0 /\ lastErr' = ""
    /\ UNCHANGED <<prog, input, items, idx, drv, results, output, navOnQuit,
                   slept, pvars, xvars>>

\* what driver.get .. driver.page_source (lines 534-537) can do: the page is
\* returned only by a usable session and a reachable page
GetOutcomes(st, reach) ==
    (IF st = "ok" /\ reach THEN {"ok"} ELSE {})
    \cup (IF st = "quit" THEN {"other"} ELSE {"invalid", "wde", "other"})

ErrName(o) ==
    CASE o = "invalid" -> "InvalidSessionIdException"
      [] o = "wde" -> "WebDriverException"
      [] OTHER -> "Exception"

\* the handles after a failed attempt: InvalidSessionIdException quits the
\* handle; another WebDriverException may or may not have cost the session
HandlesAfterFail(o, h) ==
    IF o = "invalid" THEN {Quit(h)}
    ELSE IF o = "wde" /\ hs[h] = "ok" THEN {hs, [hs EXCEPT ![h] = "broken"]}
    ELSE {hs}

\* driver = None after InvalidSessionIdException, the same handle otherwise
DriverAfterFail(o, h) == IF o = "invalid" THEN 0 ELSE h

\* one attempt of ensure_driver_and_get after ensure_driver: lines 533-550.
\* On return the caller's driver takes the returned handle.
Get ==
    /\ pc = "get" /\ prog = "final"
    /\ navOnQuit' = (navOnQuit \/ hs[ldrv] = "quit")
    /\ \E o \in GetOutcomes(hs[ldrv], items[idx].reach) :
         LET c1 == [cur EXCEPT !.nav = Append(@, o), !.navh = Append(@, ldrv)]
             c2 == [c1 EXCEPT !.delays = Append(@, RetryDelay(attempt))]
         IN  IF o = "ok"
             THEN /\ cur' = [c1 EXCEPT !.fetch = "page"]
                  /\ drv' = ldrv
                  /\ pc' = "parse"
                  /\ ldrv' = 0 /\ attempt' = 0 /\ lastErr' = ""
                  /\ UNCHANGED hs
             ELSE /\ hs' \in HandlesAfterFail(o, ldrv)
                  /\ IF AttemptsLeft(attempt + 1)
                     THEN /\ pc' = "ensure" /\ cur' = c2
                          /\ ldrv' = DriverAfterFail(o, ldrv)
                          /\ attempt' = attempt + 1
                          /\ lastErr' = ErrName(o)
                          /\ UNCHANGED drv
                     ELSE /\ drv' = DriverAfterFail(o, ldrv)
                          /\ cur' = FetchFailed(c2, ErrName(o))
                          /\ pc' = "append"
                          /\ ldrv' = 0 /\ attempt' = 0 /\ lastErr' = ""
    /\ UNCHANGED <<prog, input, items, idx, results, output, slept, pvars,
                   xvars>>

\* the parser call and lines 576-591 of final.py; the parser drives the
\* browser for the shipping lookup and may raise
Parse ==
    /\ pc = "parse" /\ prog = "final"
    /\ \E o \in {"ok", "raise", "raise_dead"} :
         IF o = "ok"
         THEN /\ cur' = ParsedFields(cur, BatchPage(items[idx].page))
              /\ pc' = "append" /\ UNCHANGED hs
         ELSE /\ cur' = ItemRaised(ParserRaisedFields(cur, BatchPage(items[idx].page)),
                                   "WebDriverException: page_source")
              /\ hs' = IF o = "raise_dead" THEN [hs EXCEPT ![drv] = "broken"] ELSE hs
              /\ pc' = AfterItemRaise
    /\ UNCHANGED <<prog, input, items, idx, drv, ldrv, attempt, lastErr,
                   results, output, navOnQuit, slept, pvars, xvars>>

\* scraper.py scrape_one: one navigation on the handle made before the loop
ScrapeOne ==
    /\ pc = "scrape_one" /\ prog = "scraper"
    /\ \E o \in GetOutcomes(hs[drv], items[idx].reach) :
         LET c1 == [cur EXCEPT !.nav = Append(@, o), !.navh = Append(@, drv),
                               !.ev = IF hs[drv] # "ok" THEN "dead"
                                      ELSE IF o = "ok" THEN "ok"
                                      ELSE IF o = "invalid" THEN "died"
                                      ELSE "pagefail"]
         IN  IF o = "ok"
             THEN /\ cur' = ScrapedFields(c1, BatchPage(items[idx].page))
                  /\ UNCHANGED hs
             ELSE /\ cur' = ItemRaised(c1, ErrName(o))
                  /\ hs' = IF o = "invalid" THEN [hs EXCEPT ![drv] = "broken"] ELSE hs
    /\ pc' = "append"
    /\ UNCHANGED <<prog, input, items, idx, drv, ldrv, attempt, lastErr, results, output, navOnQuit, slept, pvars,
                   xvars>>

\* the dict appended for an item: its fields, and of its history what the
\* properties of whole batches need (the per-attempt log stays with cur)
RecordOf(c, item) ==
    [c EXCEPT !.nav = << >>, !.navh = << >>, !.delays = << >>]
    @@ [url |-> item.url, row |-> item.row, reach |-> item.reach]

\* results.append({...}); the item's variables are dead from here on (the
\* loop head assigns every one of them before any is read)
AppendRecord ==
    /\ pc = "append"
    /\ results' = Append(results, RecordOf(cur, items[idx]))
    /\ cur' = DefaultCur
    /\ pc' = "sleep"
    /\ UNCHANGED <<prog, input, items, idx, drv, ldrv, hs, attempt, lastErr,
                   output, navOnQuit, slept, pvars, xvars>>

\* a delay that is part of the work on a page: none after a failed item
PaceDelayAfterSuccessOnly(n, rec) == IF rec.status = "ok" THEN n + 1 ELSE n

\* the last statement of the loop body, after results.append and outside the
\* try: it runs whatever the record says
PaceDelay(n, rec) == n + 1

\* time.sleep(...) at the end of the loop body
Pace ==
    /\ pc = "sleep"
    /\ slept' = PaceDelay(slept, results[Len(results)])
    /\ idx' = idx + 1
    /\ pc' = "item"
    /\ UNCHANGED <<prog, input, items, drv, ldrv, hs, attempt, lastErr, cur,
                   results, output, navOnQuit, pvars, xvars>>

\* the finally clause, then the output file; when the loop was left by an
\* exception ("abort") the exception goes on and nothing is written
Finally ==
    /\ pc \in {"finally", "abort"}
    /\ hs' = Quit(drv)
    /\ IF pc = "finally"
       THEN /\ output' = Len(results) /\ pc' = "done"
       ELSE /\ pc' = "raised" /\ UNCHANGED output
    /\ UNCHANGED <<prog, input, items, idx, drv, ldrv, attempt, lastErr, cur,
                   results, navOnQuit, slept, pvars, xvars>>

\* ------------------------------------------------------------------------
\* The price pipeline of one page, step by step
\* ------------------------------------------------------------------------
PriceTexts ==
    {<<Tok("r$"), Num(8000)>>, <<Tok("r$"), Num(10000)>>,
     <<Tok("por"), Tok("r$"), Num(8000)>>,
     <<Tok("de"), Tok("r$"), Num(10000)>>,
     <<Tok("3x"), Tok("de"), Tok("r$"), Num(3333)>>}

PriceLeaves ==
    {Leaf(a[1], a[2], t) :
        a \in {<<"price", "">>, <<"old-price", "">>, <<"note", "">>,
               <<"note", "price-value">>},
        t \in PriceTexts}
    \cup {[Leaf("note", "", <<Tok("de"), Tok("r$"), Num(10000)>>)
             EXCEPT !.cmt = TRUE],
          [Leaf("price", "", <<Tok("por"), Tok("r$"), Num(8000)>>)
             EXCEPT !.split = TRUE]}

\* the offer values of the structured data of a page
JsonldBlocks ==
    {<< >>, <<[form |-> "dot", c |-> 8000]>>,
     <<[form |-> "dot", c |-> 10000], [form |-> "dot", c |-> 8000]>>,
     <<[form |-> "nonfinite", c |-> 0]>>}

PricePages ==
    {Page(cls, kids, jl) :
        cls \in {"note", "price"},
        kids \in UNION {[1..n -> PriceLeaves] : n \in 0..MaxKids},
        jl \in JsonldBlocks}

BatchIdle ==
    /\ prog = "none" /\ input = << >> /\ items = << >> /\ pc = "off"
    /\ idx = 0 /\ drv = 0 /\ ldrv = 0 /\ hs = << >> /\ attempt = 0
    /\ lastErr = "" /\ cur = DefaultCur /\ results = << >>
    /\ output = None /\ navOnQuit = FALSE /\ slept = 0

InitPrice ==
    /\ BatchIdle
    /\ OthersIdle
    /\ ppage \in PricePages
    /\ phint \in {"", "magalu"}
    /\ ppc = "start" /\ pcands = << >> /\ pres = << >>

\* cands = [(p, 5, 'jsonld') ...] + collect_dom_prices(soup, hint)
PCollect ==
    /\ ppc = "start"
    /\ pcands' = ParserCands(ppage, phint)
    /\ ppc' = "cands"
    /\ UNCHANGED <<ppage, phint, pres, bvars, xvars>>

\* price_str, price_num, debug = pick_best_price(cands)
PPick ==
    /\ ppc = "cands"
    /\ pres' = pick_best_price(pcands)
    /\ ppc' = "picked"
    /\ UNCHANGED <<ppage, phint, pcands, bvars, xvars>>

\* the caller's lines 577-584
PFallback ==
    /\ ppc = "picked"
    /\ pres' = FinishPrice(pres, ppage)
    /\ ppc' = "done"
    /\ UNCHANGED <<ppage, phint, pcands, bvars, xvars>>

NextPrice == PCollect \/ PPick \/ PFallback

SpecPrice == InitPrice /\ [][NextPrice]_vars

\* ------------------------------------------------------------------------
\* One structured-data offer value on its way to the record
\* ------------------------------------------------------------------------
InitFmt ==
    /\ BatchIdle /\ PriceIdle /\ IngestIdle /\ NewIdle
    /\ fval \in OfferValues
    /\ fpc = "start" /\ fcands = << >>
    /\ fres = [price |-> << >>, num |-> None]

\* prices = jsonld_prices(soup)
FJsonld ==
    /\ fpc = "start"
    /\ fcands' = jsonld_norm_chars(fval.str)
    /\ fpc' = "cands"
    /\ UNCHANGED <<fval, fres, bvars, pvars, ivars, nvars>>

\* pick_best_price([(p, 5, 'jsonld') for p in prices]): no DOM candidate
FPick ==
    /\ fpc = "cands"
    /\ fres' = pick_jsonld_chars(fcands)
    /\ fpc' = "picked"
    /\ UNCHANGED <<fval, fcands, bvars, pvars, ivars, nvars>>

\* price_num = br_to_float(price); the page text shows no amount, so the
\* regex fallback finds nothing
FRecord ==
    /\ fpc = "picked"
    /\ fres' = [price |-> fres.price, num |-> br_to_float_chars(fres.price)]
    /\ fpc' = "done"
    /\ UNCHANGED <<fval, fcands, bvars, pvars, ivars, nvars>>

NextFmt == FJsonld \/ FPick \/ FRecord

SpecFmt == InitFmt /\ [][NextFmt]_vars

\* ------------------------------------------------------------------------
\* The ingest loop (scraper.py ingest_dataframe, populando_db.py main)
\* ------------------------------------------------------------------------
MaxIngest == 3

InitIngest ==
    /\ BatchIdle /\ PriceIdle /\ FmtIdle /\ NewIdle
    /\ iprog \in {"scraper", "populando"}
    /\ ipc = "row" /\ irow = NoRow /\ ifk = NoFk
    /\ Fornecedores = << >> /\ Seller = << >> /\ Products = << >> /\ List = << >>
    /\ ins_ok = 0 /\ errs = 0 /\ ilog = << >>

ioth == <<bvars, pvars, fvars, nvars>>

\* for _, row in norm.iterrows(): the next row, or the end of the frame
IngestLoop ==
    /\ ipc = "row"
    /\ \/ /\ Len(ilog) < MaxIngest
          /\ \E r \in IngestRows : irow' = r
          /\ ifk' = NoFk
          /\ ipc' = "fornecedor"
       \/ /\ ipc' = "end" /\ UNCHANGED <<irow, ifk>>
    /\ UNCHANGED <<iprog, Fornecedores, Seller, Products, List, ins_ok, errs,
                   ilog, ioth>>

\* except Exception: errs += 1, and the loop goes on; the transaction of the
\* helper that raised is rolled back, those before it were committed
IngestRaised ==
    /\ errs' = errs + 1
    /\ ilog' = Append(ilog, [row |-> irow, out |-> "err", at |-> ipc])
    /\ ipc' = "row"
    /\ UNCHANGED <<iprog, irow, ifk, Fornecedores, Seller, Products, List,
                   ins_ok, ioth>>

\* the names the loop passes on: stripped; the seller is the vendor when the
\* seller cell is empty
RowFornecedor(r) == Strip(r.fornecedor_name)
RowSeller(r) ==
    IF r.seller_name # << >> THEN Strip(r.seller_name) ELSE Strip(r.fornecedor_name)
RowProduto(r) == Strip(r.produto)

\* fk_fornecedor = get_or_create_fornecedor(eng, ...)
IngestFornecedor ==
    /\ ipc = "fornecedor"
    /\ \/ IngestRaised
       \/ /\ \E res \in get_or_create_fornecedor(Fornecedores, iprog, RowFornecedor(irow)) :
               /\ Fornecedores' = res.tbl
               /\ ifk' = [ifk EXCEPT !.f = res.id]
          /\ ipc' = "seller"
          /\ UNCHANGED <<iprog, irow, Seller, Products, List, ins_ok, errs,
                         ilog, ioth>>

\* fk_seller = get_or_create_seller(eng, ..., fk_fornecedor)
IngestSeller ==
    /\ ipc = "seller"
    /\ \/ IngestRaised
       \/ /\ \E res \in get_or_create_seller(Seller, iprog, RowSeller(irow), ifk.f) :
               /\ Seller' = res.tbl
               /\ ifk' = [ifk EXCEPT !.s = res.id]
          /\ ipc' = "product"
          /\ UNCHANGED <<iprog, irow, Fornecedores, Products, List, ins_ok,
                         errs, ilog, ioth>>

\* fk_product = get_or_create_product(eng, ...)
IngestProduct ==
    /\ ipc = "product"
    /\ \/ IngestRaised
       \/ /\ \E res \in get_or_create_product(Products, RowProduto(irow)) :
               /\ Products' = res.tbl
               /\ ifk' = [ifk EXCEPT !.p = res.id]
          /\ ipc' = "list"
          /\ UNCHANGED <<iprog, irow, Fornecedores, Seller, List, ins_ok, errs,
                         ilog, ioth>>

\* insert_list_row(...): one INSERT INTO List; then ins_ok += 1
IngestListRow ==
    /\ ipc = "list"
    /\ \/ IngestRaised
       \/ /\ List' = insert_list_row(List, irow.url, ifk)
          /\ ins_ok' = ins_ok + 1
          /\ ilog' = Append(ilog, [row |-> irow, out |-> "ok", at |-> "list"])
          /\ ipc' = "row"
          /\ UNCHANGED <<iprog, irow, ifk, Fornecedores, Seller, Products,
                         errs, ioth>>

NextIngest ==
    \/ IngestLoop
    \/ IngestFornecedor
    \/ IngestSeller
    \/ IngestProduct
    \/ IngestListRow

SpecIngest == InitIngest /\ [][NextIngest]_vars

\* ------------------------------------------------------------------------
\* Two ingest runs on one database, statement by statement
\* ------------------------------------------------------------------------
\* Each run executes the statements of its helpers in order: the SELECT by
\* key, the INSERT when the SELECT found nothing, the SELECT that reads the
\* id back; then the INSERT INTO List.  The statements of the two runs
\* interleave.  The repository holds no DDL: the keys the specification
\* calls unique may or may not be enforced by the schema (cuniq).
MaxConcRows == 1
Runs == {1, 2}
ConcRows ==
    {r \in IngestRows : r.url \in {"u1", "u2", "u4"}}
ConcTodo == UNION {[1..n -> ConcRows] : n \in 1..MaxConcRows}

\* the rows of the stage's table that the SELECT of the helper matches
StageHits(stage, row, fk) ==
    CASE stage = "f" ->
           {k \in 1..Len(Fornecedores) :
               Fornecedores[k].code = FornecedorCode(iprog, RowFornecedor(row))}
      [] stage = "s" ->
           {k \in 1..Len(Seller) :
               /\ Seller[k].name = SellerName(iprog, RowSeller(row))
               /\ Seller[k].fk_fornecedor = fk.f}
      [] OTHER ->
           {k \in 1..Len(Products) : Products[k].code = ProductCode(RowProduto(row))}

\* the row the INSERT of the helper writes
StageNewRow(stage, row, fk) ==
    CASE stage = "f" ->
           [name |-> FornecedorName(iprog, RowFornecedor(row)),
            code |-> Truncate(FornecedorCode(iprog, RowFornecedor(row)), 100)]
      [] stage = "s" ->
           [name |-> SellerName(iprog, RowSeller(row)), fk_fornecedor |-> fk.f]
      [] OTHER ->
           [code |-> Truncate(ProductCode(RowProduto(row)), 100),
            model |-> RowProduto(row)]

NextStage(stage) ==
    CASE stage = "f" -> "s" [] stage = "s" -> "p" [] OTHER -> "list"
WithFk(fk, stage, id) ==
    CASE stage = "f" -> [fk EXCEPT !.f = id]
      [] stage = "s" -> [fk EXCEPT !.s = id]
      [] OTHER -> [fk EXCEPT !.p = id]

coth == <<bvars, pvars, fvars, hvars, tvars, ipc, irow, ifk, ins_ok, errs, ilog>>

InitConc ==
    /\ BatchIdle /\ PriceIdle /\ FmtIdle /\ CallIdle /\ TermIdle
    /\ iprog \in {"scraper", "populando"}
    /\ ipc = "off" /\ irow = NoRow /\ ifk = NoFk
    /\ Fornecedores = << >> /\ Seller = << >> /\ Products = << >> /\ List = << >>
    /\ ins_ok = 0 /\ errs = 0 /\ ilog = << >>
    /\ cuniq \in BOOLEAN
    /\ crun \in [Runs -> {[pc |-> "row", stage |-> "f", todo |-> t, row |-> NoRow,
                           fk |-> NoFk, ins_ok |-> 0, errs |-> 0] : t \in ConcTodo}]

\* for _, row in norm.iterrows()
ConcLoop(r) ==
    /\ crun[r].pc = "row"
    /\ crun' = [crun EXCEPT ![r] =
                  IF crun[r].todo = << >> THEN [crun[r] EXCEPT !.pc = "end"]
                  ELSE [crun[r] EXCEPT !.pc = "select", !.stage = "f",
                                       !.row = Head(crun[r].todo),
                                       !.todo = Tail(crun[r].todo), !.fk = NoFk]]
    /\ UNCHANGED <<cuniq, iprog, Fornecedores, Seller, Products, List, coth>>

\* row = conn.execute(SELECT ... WHERE key).fetchone(); if row: return row[0]
ConcSelect(r) ==
    /\ crun[r].pc = "select"
    /\ LET hits == StageHits(crun[r].stage, crun[r].row, crun[r].fk)
       IN  IF hits = {}
           THEN crun' = [crun EXCEPT ![r].pc = "insert"]
           ELSE \E id \in hits :
                   crun' = [crun EXCEPT ![r].fk = WithFk(@, crun[r].stage, id),
                                        ![r].stage = NextStage(@),
                                        ![r].pc = IF NextStage(crun[r].stage) = "list"
                                                  THEN "list" ELSE "select"]
    /\ UNCHANGED <<cuniq, iprog, Fornecedores, Seller, Products, List, coth>>

\* conn.execute(INSERT ...): with a UNIQUE key that is taken by now the
\* statement raises, the row is counted in errs and the loop goes on
ConcInsert(r) ==
    /\ crun[r].pc = "insert"
    /\ LET st == crun[r].stage
           new == StageNewRow(st, crun[r].row, crun[r].fk)
           taken == StageHits(st, crun[r].row, crun[r].fk) # {}
       IN  IF cuniq /\ st \in {"f", "p"} /\ taken
           THEN /\ crun' = [crun EXCEPT ![r].pc = "row", ![r].errs = @ + 1]
                /\ UNCHANGED <<Fornecedores, Seller, Products>>
           ELSE /\ crun' = [crun EXCEPT ![r].pc = "reselect"]
                /\ Fornecedores' = IF st = "f" THEN Append(Fornecedores, new)
                                   ELSE Fornecedores
                /\ Seller' = IF st = "s" THEN Append(Seller, new) ELSE Seller
                /\ Products' = IF st = "p" THEN Append(Products, new) ELSE Products
    /\ UNCHANGED <<cuniq, iprog, List, coth>>

\* row = conn.execute(SELECT ... WHERE key).fetchone(); return row[0]
ConcReselect(r) ==
    /\ crun[r].pc = "reselect"
    /\ \E id \in StageHits(crun[r].stage, crun[r].row, crun[r].fk) :
          crun' = [crun EXCEPT ![r].fk = WithFk(@, crun[r].stage, id),
                               ![r].stage = NextStage(@),
                               ![r].pc = IF NextStage(crun[r].stage) = "list"
                                         THEN "list" ELSE "select"]
    /\ UNCHANGED <<cuniq, iprog, Fornecedores, Seller, Products, List, coth>>

\* insert_list_row(...); ins_ok += 1
ConcListRow(r) ==
    /\ crun[r].pc = "list"
    /\ List' = insert_list_row(List, crun[r].row.url, crun[r].fk)
    /\ crun' = [crun EXCEPT ![r].pc = "row", ![r].ins_ok = @ + 1]
    /\ UNCHANGED <<cuniq, iprog, Fornecedores, Seller, Products, coth>>

NextConc ==
    \E r \in Runs :
        \/ ConcLoop(r)
        \/ ConcSelect(r)
        \/ ConcInsert(r)
        \/ ConcReselect(r)
        \/ ConcListRow(r)

SpecConc == InitConc /\ [][NextConc]_vars

\* ------------------------------------------------------------------------
\* scrape_term of magalu_scrape.py: sites, pages, items, rows
\* ------------------------------------------------------------------------
\* the accented letters of two terms are written i' and o'
TERMOS_EXCLUSAO ==
    {<<"c", "a", "p", "a">>,
     <<"c", "a", "p", "i", "n", "h", "a">>,
     <<"p", "e", "l", "i'", "c", "u", "l", "a">>,
     <<"p", "e", "l", "i", "c", "u", "l", "a">>,
     <<"c", "a", "s", "e">>,
     <<"a", "c", "e", "s", "s", "o'", "r", "i", "o", "s">>,
     <<"p", "r", "o", "t", "e", "t", "o", "r", " ", "d", "e", " ", "t", "e", "l", "a">>}

SITES == <<"magalu", "kabum", "amazon", "mercado_livre">>
FETCH_DETAILS == TRUE

\* the dict bases of the item loop, and the default of bases.get
bases(name) ==
    CASE name = "amazon" -> <<"h", "t", "t", "p", "s", ":", "/", "/", "w", "w", "w", ".", "a", "m", "a", "z", "o", "n", ".", "c", "o", "m", ".", "b", "r", "/">>
      [] name = "magalu" -> <<"h", "t", "t", "p", "s", ":", "/", "/", "w", "w", "w", ".", "m", "a", "g", "a", "z", "i", "n", "e", "l", "u", "i", "z", "a", ".", "c", "o", "m", ".", "b", "r", "/">>
      [] name = "kabum" -> <<"h", "t", "t", "p", "s", ":", "/", "/", "w", "w", "w", ".", "k", "a", "b", "u", "m", ".", "c", "o", "m", ".", "b", "r", "/">>
      [] name = "mercado_livre" -> <<"h", "t", "t", "p", "s", ":", "/", "/", "w", "w", "w", ".", "m", "e", "r", "c", "a", "d", "o", "l", "i", "v", "r", "e", ".", "c", "o", "m", ".", "b", "r", "/">>
      [] OTHER -> <<"h", "t", "t", "p", "s", ":", "/", "/", "w", "w", "w", ".", "g", "o", "o", "g", "l", "e", ".", "c", "o", "m", "/">>

\* f"{pu.scheme}://{pu.netloc}" of a base address
BaseOrigin(base) ==
    SubSeq(base, 1, IndexOf(base, ":") - 1) \o <<":", "/", "/">>
        \o urlparse_netloc(base).netloc

\* make_absolute; urljoin of an origin and a path that starts with "/" and
\* has no dot segment is the origin followed by the path
make_absolute(url, base) ==
    IF url = << >> THEN << >>
    ELSE IF StartsWith(url, <<"h", "t", "t", "p">>) THEN url
    ELSE IF StartsWith(url, <<"/", "/">>) THEN <<"h", "t", "t", "p", "s", ":">> \o url
    ELSE IF StartsWith(url, <<"/">>) THEN BaseOrigin(base) \o url
    ELSE url

\* a dict is a function of its keys
EmptyDict == [k \in {} |-> << >>]
DictGet(d, k) == IF k \in DOMAIN d THEN d[k] ELSE << >>
\* d.setdefault(k, v): stores v only when d has no key k
SetDefault(d, k, v) == IF k \in DOMAIN d THEN d ELSE d @@ (k :> v)

\* what a parser appends for a card: every parser and extract_with_jsonld
\* write all six keys, '' for what the listing does not show
ParsedItem(nome, preco, link, avaliacao, avaliacoes, fornecedor) ==
    [nome |-> nome, preco |-> preco, link |-> link, avaliacao |-> avaliacao,
     avaliacoes |-> avaliacoes, fornecedor |-> fornecedor]

\* the answers of enrich_from_details: {} when the page cannot be read, else
\* the seller, rating and count of the product page
EnrichAnswers ==
    {EmptyDict,
     [fornecedor |-> <<"L", "o", "j", "a">>, avaliacao |-> <<"4", ",", "5">>,
      avaliacoes |-> <<"1", "0">>]}

\* the cards of the result pages: one product under a relative and under
\* an absolute address, a cover, another product, and a JSON-LD product
\* with seller and rating and no address
TermCards ==
    <<ParsedItem(<<"A", "1", "5">>, <<"R", "$", " ", "1">>, <<"/", "p", "/", "1">>, << >>, << >>, << >>),
      ParsedItem(<<"A", "1", "5">>, <<"R", "$", " ", "1">>,
                 <<"h", "t", "t", "p", "s", ":", "/", "/", "w", "w", "w", ".", "m", "a", "g", "a", "z", "i", "n", "e", "l", "u", "i", "z", "a", ".", "c", "o", "m", ".", "b", "r", "/", "p", "/", "1">>,
                 << >>, << >>, << >>),
      ParsedItem(<<"c", "a", "p", "a", " ", "A", "1", "5">>, <<"R", "$", " ", "2">>, <<"/", "p", "/", "2">>, << >>, << >>, << >>),
      ParsedItem(<<"S", "2", "3">>, <<"R", "$", " ", "3">>, <<"/", "p", "/", "3">>, << >>, << >>, << >>),
      ParsedItem(<<"A", "1", "5">>, <<"R", "$", " ", "4">>, << >>, <<"4", ",", "0">>, <<"7">>, <<"L", "o", "j", "a", " ", "B">>)>>

MaxPages == 2
MaxItems == 2
MaxTermRows == 3
MaxLimit == 1
first_page == 1

\* the item lists a parser returns: up to MaxItems cards, in page order
PageItemLists ==
    {<< >>} \cup {<<TermCards[i]>> : i \in 1..Len(TermCards)}
        \cup {<<TermCards[i], TermCards[j]>> :
                 i \in 1..Len(TermCards), j \in 1..Len(TermCards)}
PageItems == {l \in PageItemLists : Len(l) <= MaxItems /\ (Len(l) = 2 => l[1] # l[2])}

\* k = (it.get("nome",""), it.get("preco",""), it.get("link",""))
ItemKey(it) == <<DictGet(it, "nome"), DictGet(it, "preco"), DictGet(it, "link")>>

\* the two filters on the name of an item
Excluded(it) ==
    \E t \in TERMOS_EXCLUSAO : Contains(Lower(DictGet(it, "nome")), t)
MatchesTerm(it) == Contains(Lower(DictGet(it, "nome")), Lower(term))

\* it["link"] = make_absolute(it["link"], bases.get(site, ...)) when the
\* item has a link
WithAbsoluteLink(it) ==
    IF DictGet(it, "link") # << >>
    THEN [it EXCEPT !["link"] = make_absolute(it["link"], bases(SITES[site]))]
    ELSE it

\* the condition under which the product page is opened
WantsDetails(it) ==
    /\ FETCH_DETAILS
    /\ (DictGet(it, "fornecedor") = << >> \/ DictGet(it, "avaliacao") = << >>)
    /\ DictGet(it, "link") # << >>

\* if more: the three setdefault calls
Enriched(it, more) ==
    IF DOMAIN more = {} THEN it
    ELSE SetDefault(SetDefault(SetDefault(it,
             "fornecedor", DictGet(more, "fornecedor")),
             "avaliacao", DictGet(more, "avaliacao")),
             "avaliacoes", DictGet(more, "avaliacoes"))

\* the dict appended to rows
RowOf(it) ==
    [site |-> SITES[site], termo |-> term,
     nome |-> DictGet(it, "nome"), preco |-> DictGet(it, "preco"),
     link |-> DictGet(it, "link"), avaliacao |-> DictGet(it, "avaliacao"),
     avaliacoes |-> DictGet(it, "avaliacoes"),
     fornecedor |-> DictGet(it, "fornecedor")]

toth == <<bvars, pvars, fvars, ivars, hvars, cvars>>

InitTerm ==
    /\ BatchIdle /\ PriceIdle /\ FmtIdle /\ IngestIdle /\ CallIdle /\ ConcIdle
    /\ tpc = "site"
    /\ term = <<"a", "1", "5">>
    /\ last_page \in first_page..MaxPages
    /\ max_results_per_term \in 0..MaxLimit
    /\ site = 0 /\ pg = 0 /\ page_items = << >> /\ seen = {} /\ rows = << >>
    /\ collected_count = 0 /\ tlog = << >>

\* for site, spec in SITES.items(): seen = set()
TermNextSite ==
    /\ tpc = "site" /\ site < Len(SITES)
    /\ site' = site + 1 /\ seen' = {} /\ pg' = first_page
    /\ tpc' = "page"
    /\ UNCHANGED <<term, last_page, max_results_per_term, page_items, rows,
                   collected_count, tlog, toth>>

\* browser.close(); return rows
TermReturn ==
    /\ tpc = "site" /\ site = Len(SITES)
    /\ tpc' = "done"
    /\ UNCHANGED <<term, last_page, max_results_per_term, site, pg, page_items,
                   seen, rows, collected_count, tlog, toth>>

\* range(first_page, last_page + 1) is exhausted
TermPagesDone ==
    /\ tpc = "page" /\ pg > last_page
    /\ tpc' = "site"
    /\ UNCHANGED <<term, last_page, max_results_per_term, site, pg, page_items,
                   seen, rows, collected_count, tlog, toth>>

\* if collected_count >= max_results_per_term: break
TermLimit ==
    /\ tpc = "page" /\ pg <= last_page
    /\ collected_count >= max_results_per_term
    /\ tpc' = "site"
    /\ UNCHANGED <<term, last_page, max_results_per_term, site, pg, page_items,
                   seen, rows, collected_count, tlog, toth>>

\* page.goto raises: continue with the next page
TermGotoFails ==
    /\ tpc = "page" /\ pg <= last_page
    /\ collected_count < max_results_per_term
    /\ pg' = pg + 1
    /\ UNCHANGED <<tpc, term, last_page, max_results_per_term, site, page_items,
                   seen, rows, collected_count, tlog, toth>>

\* the page is read and parsed: items = parser(soup)
TermParsePage ==
    /\ tpc = "page" /\ pg <= last_page
    /\ collected_count < max_results_per_term
    /\ \E l \in PageItems :
          /\ Len(rows) + Len(l) <= MaxTermRows
          /\ page_items' = l
    /\ tpc' = "item"
    /\ UNCHANGED <<term, last_page, max_results_per_term, site, pg, seen, rows,
                   collected_count, tlog, toth>>

\* one turn of for it in items
TermItem ==
    /\ tpc = "item" /\ page_items # << >>
    /\ page_items' = Tail(page_items)
    /\ LET it == Head(page_items)
           k == ItemKey(it)
           abs == WithAbsoluteLink(it)
       IN  IF Excluded(it) \/ ~MatchesTerm(it) \/ k \in seen
           THEN UNCHANGED <<seen, rows, tlog>>
           ELSE \E more \in (IF WantsDetails(abs) THEN EnrichAnswers
                             ELSE {EmptyDict}) :
                   /\ seen' = seen \cup {k}
                   /\ rows' = Append(rows, RowOf(Enriched(abs, more)))
                   /\ tlog' = Append(tlog, [it |-> it, more |-> more,
                                            asked |-> WantsDetails(abs)])
    /\ UNCHANGED <<tpc, term, last_page, max_results_per_term, site, pg,
                   collected_count, toth>>

\* the items of the page are used up: the next page
TermPageEnd ==
    /\ tpc = "item" /\ page_items = << >>
    /\ pg' = pg + 1 /\ tpc' = "page"
    /\ UNCHANGED <<term, last_page, max_results_per_term, site, page_items, seen,
                   rows, collected_count, tlog, toth>>

NextTerm ==
    \/ TermNextSite \/ TermReturn \/ TermPagesDone \/ TermLimit
    \/ TermGotoFails \/ TermParsePage \/ TermItem \/ TermPageEnd

SpecTerm == InitTerm /\ [][NextTerm]_vars

\* ------------------------------------------------------------------------
\* Calls of single functions
\* ------------------------------------------------------------------------
hoth == <<bvars, pvars, fvars, ivars, cvars, tvars>>
CallOthersIdle ==
    BatchIdle /\ PriceIdle /\ FmtIdle /\ IngestIdle /\ ConcIdle /\ TermIdle

\* parser = pick_parser(url)
InitParser ==
    /\ CallOthersIdle
    /\ hfun = "pick_parser" /\ harg \in ParserUrls
    /\ hpc = "call" /\ hret = << >>

CallPickParser ==
    /\ hfun = "pick_parser" /\ hpc = "call"
    /\ hret' = pick_parser(harg.url)
    /\ hpc' = "ret"
    /\ UNCHANGED <<hfun, harg, hoth>>

NextParser == CallPickParser

\* texts given to br_to_float: a prefix, one to three digits, groups of a dot
\* and three digits, a comma and two digits, each part with its value; and
\* texts that hold no such number (amounts below 2^31 cents)
BrPrefixes == {<< >>, <<"R", "$", " ">>, <<"R", "$">>, <<"p", "o", "r", " ", "R", "$", " ">>}
BrLeads ==
    {[s |-> <<"0">>, n |-> 0], [s |-> <<"1">>, n |-> 1], [s |-> <<"1", "2">>, n |-> 12],
     [s |-> <<"9", "9", "9">>, n |-> 999], [s |-> <<"0", "1">>, n |-> 1],
     [s |-> <<"0", "0", "7">>, n |-> 7]}
BrGroupSeqs ==
    {[s |-> << >>, n |-> 0, scale |-> 1],
     [s |-> <<".", "2", "3", "4">>, n |-> 234, scale |-> 1000],
     [s |-> <<".", "0", "0", "0">>, n |-> 0, scale |-> 1000],
     [s |-> <<".", "2", "3", "4", ".", "5", "6", "7">>, n |-> 234567, scale |-> 1000000]}
BrCentParts ==
    {[s |-> <<"0", "0">>, n |-> 0], [s |-> <<"0", "5">>, n |-> 5],
     [s |-> <<"5", "6">>, n |-> 56], [s |-> <<"9", "9">>, n |-> 99]}
BrNumbers ==
    {[txt |-> p \o lg[1].s \o lg[2].s \o <<",">> \o c.s,
      written |-> (lg[1].n * lg[2].scale + lg[2].n) * 100 + c.n] :
        p \in BrPrefixes, c \in BrCentParts,
        lg \in {x \in BrLeads \X BrGroupSeqs : x[1].n * x[2].scale < 20000000}}
BrNoNumbers ==
    {[txt |-> t, written |-> None] :
        t \in {<< >>,
              <<"R", "$">>,
              <<"1", "2", ",", "5">>,
              <<"1", "2", "3", "4">>,
              <<"R", "$", " ", "1", "2", ".", "0", "0">>,
              <<"1", ".", "2", "3", "4">>,
              <<"a", "b", "c", ",", " ", "d", "e">>}}
BrTexts == BrNumbers \cup BrNoNumbers

\* price_num = br_to_float(price)
InitBr ==
    /\ CallOthersIdle
    /\ hfun = "br_to_float" /\ harg \in BrTexts
    /\ hpc = "call" /\ hret = << >>

CallBrToFloat ==
    /\ hfun = "br_to_float" /\ hpc = "call"
    /\ hret' = br_to_float_chars(harg.txt)
    /\ hpc' = "ret"
    /\ UNCHANGED <<hfun, harg, hoth>>

NextBr == CallBrToFloat

SpecBr == InitBr /\ [][NextBr]_vars

\* candidate lists given to pick_best_price: (text, score, provenance) as
\* the parsers and collect_dom_prices make them
MaxCands == 3
Cand(t, sc, why) == [txt |-> t, score |-> sc, reason |-> why]
BannerText == <<"d", "e", " ", "R", "$", " ", "1", "0", "0", ",", "0", "0", " ", "p", "o", "r", " ", "R", "$", " ", "8", "0", ",", "0", "0">>
RankCands ==
    {Cand(<<"R", "$", " ", "8", "0", ",", "0", "0">>, 5, "jsonld"),
     Cand(<<"R", "$", " ", "8", "0", ",", "0", "0">>, 2, "sel"),
     Cand(<<"R", "$", " ", "1", "0", "0", ",", "0", "0">>, 5, "jsonld"),
     Cand(<<"R", "$", " ", "1", "0", "0", ",", "0", "0">>, 0, "sel"),
     Cand(BannerText, 3, "context"),
     Cand(BannerText, 2, "sel"),
     Cand(<<"p", "o", "r", " ", "R", "$", " ", "8", "0", ",", "0", "0">>, 3, "context"),
     Cand(<<"p", "o", "r", " ", "R", "$", " ", "8", "0", ",", "0", "0">>, 2, "sel"),
     Cand(<<"d", "e", " ", "R", "$", " ", "1", "0", "0", ",", "0", "0">>, 3, "context"),
     Cand(<<"a", " ", "p", "a", "r", "t", "i", "r", " ", "d", "e", " ", "R", "$", " ", "1", "0", "0", ",", "0", "0">>, 2, "sel"),
     Cand(<<"3", "x", " ", "d", "e", " ", "R", "$", " ", "3", "3", ",", "3", "3">>, 3, "context"),
     Cand(<<"R", "$", " ", "0", "8", "0", ",", "0", "0">>, 2, "sel"),
     Cand(<<"R", "$", " ", "0", "8", "0", ",", "0", "0">>, 3, "context"),
     Cand(<<"F", "r", "e", "t", "e", " ", "g", "r", "a", "t", "i", "s">>, 2, "sel")}
RankLists == UNION {[1..n -> RankCands] : n \in 0..MaxCands}

\* price_str, price_num, debug = pick_best_price(cands)
InitRank ==
    /\ CallOthersIdle
    /\ hfun = "pick_best_price" /\ harg \in RankLists
    /\ hpc = "call" /\ hret = << >>

CallPickBestPrice ==
    /\ hfun = "pick_best_price" /\ hpc = "call"
    /\ hret' = pick_best_price_chars(harg)
    /\ hpc' = "ret"
    /\ UNCHANGED <<hfun, harg, hoth>>

NextRank == CallPickBestPrice

SpecRank == InitRank /\ [][NextRank]_vars

SpecParser == InitParser /\ [][NextParser]_vars

Next ==
    \/ Start
    \/ LoopHead
    \/ EnsureDriver
    \/ Get
    \/ Parse
    \/ ScrapeOne
    \/ AppendRecord
    \/ Pace
    \/ Finally

Spec == Init /\ [][Next]_vars

\* ------------------------------------------------------------------------
\* Properties
\* ------------------------------------------------------------------------
Failed(o) == o # "ok"
DefaultFields(r) ==
    /\ r.price = << >> /\ r.price_num = None /\ r.seller = ""
    /\ r.rating = "" /\ r.count = None
    /\ r.frete_valor = "" /\ r.frete_prazo = "" /\ r.frete_metodo = ""

\* C1: scrape_products appends exactly one record per attempted URL, in input
\* order, whatever fails per URL: while the loop runs there is one record for
\* each item already passed, after the loop there are as many records as
\* items, record k is the record of item k, and no exception leaves the loop.
C1_OneRecordPerUrl ==
    /\ pc \in {"item", "ensure", "get", "parse", "scrape_one", "append"}
          => Len(results) = idx - 1
    /\ pc = "sleep" => Len(results) = idx
    /\ pc \in {"finally", "done"} => Len(results) = Len(items)
    /\ \A k \in 1..Len(results) :
          results[k].row = items[k].row /\ results[k].url = items[k].url
    /\ pc \in {"abort", "raised"} => idx = 0 /\ results = << >>

C1_Witness ==
    /\ pc = "done" /\ Len(items) = MaxRows /\ Len(results) = MaxRows
    /\ \E k \in 1..Len(results) : results[k].status = "erro"
    /\ \E k \in 1..Len(results) : results[k].status = "ok"

\* C2: in final.py an item whose page was not fetched (every navigation
\* threw, or the session could not be had) still has its record, with the
\* error status and a non-empty error message; an item that was fetched and
\* parsed has status ok; the finished batch holds a record for every item.
C2_FetchErrorRecorded ==
    prog = "final" =>
        /\ \A k \in 1..Len(results) :
              /\ results[k].fetch # "page"
                    => results[k].status = "erro" /\ results[k].erro # ""
              /\ results[k].fetch = "page" /\ results[k].parse = "ok"
                    => results[k].status = "ok" /\ results[k].erro = ""
        /\ pc = "done" => Len(results) = Len(items)

C2_Witness ==
    /\ prog = "final" /\ pc = "done" /\ Len(results) = 2
    /\ results[1].fetch = "none" /\ results[1].status = "erro"
    /\ results[2].status = "ok"

\* C3: every record with the error status has all extracted fields at their
\* defaults (empty price, null numeric price, empty seller and rating, null
\* rating count, empty shipping fields), whichever step raised.
C3_ErrorKeepsDefaults ==
    /\ \A k \in 1..Len(results) :
          results[k].status = "erro" => DefaultFields(results[k])
    /\ cur.status = "erro" => DefaultFields(cur)

C3_Witness ==
    \E k \in 1..Len(results) :
        /\ results[k].status = "erro" /\ results[k].parse = "raise"
        /\ results[k].fetch = "page"

\* C4: when no cell of the input holds a valid URL, scrape_products raises at
\* once: no browser session was created, no record made, no output written.
NoValidUrl == \A i \in 1..Len(input) : ~StartsWithHttp(input[i].url)

C4_EmptyBatchRaises ==
    NoValidUrl /\ pc # "start" =>
        /\ pc = "raised" /\ idx = 0
        /\ hs = << >> /\ drv = 0
        /\ results = << >> /\ output = None

C4_Witness ==
    /\ pc = "raised" /\ NoValidUrl /\ Len(input) = MaxRows /\ MaxRows > 0

\* C5: for one URL ensure_driver_and_get navigates at most retries+1 = 3
\* times, sleeps 0.5 + 0.5*k seconds after failed attempt k (k = 0, 1, 2), a
\* strictly increasing delay, returns the page at the first attempt that
\* succeeds, and returns no page only when all three attempts failed.
C5_BoundedRetries ==
    prog = "final" =>
        /\ Retries + 1 = 3
        /\ Len(cur.nav) <= Retries + 1
        /\ Len(cur.delays) = Cardinality({k \in 1..Len(cur.nav) : Failed(cur.nav[k])})
        /\ \A k \in 1..Len(cur.delays) : cur.delays[k] = 5 + 5 * (k - 1)
        /\ \A k \in 1..(Len(cur.delays) - 1) : cur.delays[k] < cur.delays[k + 1]
        /\ \A k \in 1..(Len(cur.nav) - 1) : Failed(cur.nav[k])
        /\ cur.fetch = "page" => cur.nav # << >> /\ cur.nav[Len(cur.nav)] = "ok"
        /\ cur.fetch = "none" =>
              /\ Len(cur.nav) = Retries + 1
              /\ \A k \in 1..Len(cur.nav) : Failed(cur.nav[k])
              /\ cur.status = "erro"

C5_Witness ==
    /\ prog = "final" /\ pc = "append" /\ cur.fetch = "none"
    /\ cur.delays = <<5, 10, 15>> /\ Len(cur.nav) = 3

\* C6: in final.py no driver.get is ever issued on a handle that was quit: the
\* handle about to be navigated is one the probe found usable or a fresh one,
\* and after an attempt that discarded the handle the next attempt of the
\* URL, and the later URLs, navigate another handle.
C6_NoNavigationOnQuitHandle ==
    prog = "final" =>
        /\ ~navOnQuit
        /\ pc = "get" => ldrv # 0 /\ hs[ldrv] = "ok"
        /\ \A k \in 2..Len(cur.navh) :
              cur.nav[k - 1] = "invalid" => cur.navh[k] # cur.navh[k - 1]
        /\ \A k \in 1..Len(cur.navh) :
              pc \in {"ensure", "get"} /\ hs[cur.navh[k]] = "quit"
                 => ldrv # cur.navh[k]

C6_Witness ==
    /\ prog = "final" /\ pc = "get" /\ idx = 2
    /\ results[1].status = "erro" /\ results[1].fetch = "none"
    /\ \E h \in 1..Len(hs) : hs[h] = "quit"
    /\ cur.nav = <<"invalid">> /\ hs[ldrv] = "ok"

\* C7: in scraper.py, once the session became unusable while URL i was
\* processed, a later URL j whose page is reachable is processed with a
\* usable session (and gets status ok when its navigation succeeds).
C7_SessionRecreated ==
    prog = "scraper" =>
        \A i \in 1..Len(results) : \A j \in 1..Len(results) :
            i < j /\ results[i].ev = "died" /\ results[j].reach
                => results[j].ev # "dead"

\* C8: among the candidates that survive the filter, pick_best_price returns
\* one of maximal final score, and among those of maximal score one of the
\* lowest numeric price.
C8_BestIsMaxScoreMinPrice ==
    ppc = "picked" =>
        LET n == Normed(pcands)
        IN  IF n = << >> THEN pres.price = << >> /\ pres.num = None
            ELSE \E i \in 1..Len(n) :
                    /\ pres.price = n[i].p /\ pres.num = n[i].v
                    /\ \A j \in 1..Len(n) :
                          /\ n[j].s <= n[i].s
                          /\ n[j].s = n[i].s => n[i].v <= n[j].v

C8_Witness ==
    /\ ppc = "picked"
    /\ LET n == Normed(pcands)
       IN  \E i \in 1..Len(n) : \E j \in 1..Len(n) :
              /\ n[i].s = n[j].s /\ n[i].v < n[j].v
              /\ \A k \in 1..Len(n) : n[k].s <= n[i].s
              /\ pres.num = n[i].v

\* "3x de R$" in the text
HasInstallmentPhrase(txt) ==
    \E i \in 1..(Len(txt) - 2) :
        txt[i].w = "3x" /\ txt[i + 1].w = "de" /\ txt[i + 2].w = "r$"

\* the currency matches of the page text that are not the amount of a
\* "3x de R$ ..." phrase
PlainMatches(txt) ==
    {i \in CURRENCY_RE_matches(txt) :
        ~(i > 2 /\ txt[i - 2].w = "3x" /\ txt[i - 1].w = "de")}

\* C9: a text containing "3x de R$" never gives the price of a record: the
\* ranker does not choose such a candidate, and the price the regex fallback
\* takes from the page text is not the amount of a "3x de R$" phrase.
C9_InstallmentNeverSelected ==
    ppc = "done" /\ pres.price # << >> =>
        /\ pres.via = "ranker" => ~HasInstallmentPhrase(pres.best[1].txt)
        /\ pres.via = "fallback:regex-min" =>
              \E i \in PlainMatches(PageText(ppage)) :
                  PageText(ppage)[i + 1].c = pres.num

\* C10: an element whose class holds a stale-price marker never supplies the
\* chosen price, be it through the selector scan, the contextual scan, the
\* text of an enclosing matched element or the regex fallback: the chosen
\* candidate is not a stale element, and the chosen amount is one the page
\* shows (or declares as structured data) outside its stale elements.
C10_StaleNeverSupplies ==
    ppc = "done" /\ pres.price # << >> =>
        /\ pres.via = "ranker" /\ pres.best[1].leaf # 0
              => ~IsStaleClass(ppage.kids[pres.best[1].leaf].cls)
        /\ \/ \E i \in 1..Len(ppage.kids) :
                 /\ ~IsStaleClass(ppage.kids[i].cls)
                 /\ \E k \in 1..Len(ppage.kids[i].txt) :
                       /\ ppage.kids[i].txt[k].w = "num"
                       /\ ppage.kids[i].txt[k].c = pres.num
           \/ \E i \in 1..Len(ppage.jsonld) : ppage.jsonld[i].c = pres.num

\* the candidates tagged jsonld that carry a number literal, and the others
JsonldPriced(cands) ==
    {i \in 1..Len(cands) :
        cands[i].reason = "jsonld" /\ NUMBER_RE_search(cands[i].txt) # 0}
DomCands(cands) == {i \in 1..Len(cands) : cands[i].reason # "jsonld"}

DeText == <<Tok("de"), Tok("r$"), Num(10000)>>
PorText == <<Tok("por"), Tok("r$"), Num(8000)>>
CandTexts(cands) == {cands[i].txt : i \in 1..Len(cands)}

\* C12: when the candidate list holds one candidate "de R$ 100,00" and one
\* candidate "por R$ 80,00", with whatever provenance and score the collector
\* gives each (generic or site selector, contextual scan), the ranker returns
\* R$ 80,00.
C12_DiscountReferenceLoses ==
    ppc = "picked" /\ Len(pcands) = 2 /\ CandTexts(pcands) = {DeText, PorText} =>
        /\ pres.num = 8000
        /\ pres.price = <<Tok("r$"), Num(8000)>>
        /\ pres.best[1].txt = PorText
\* the amounts of the currency-pattern matches of the page text
PageAmounts ==
    {PageText(ppage)[i + 1].c : i \in CURRENCY_RE_matches(PageText(ppage))}

\* C13: the step after the ranker (lines 577-584) keeps the ranker's price
\* whenever the ranker returned one; only when the ranker returned none does
\* the regex fallback act, and then, if the page text has a currency-pattern
\* match, the record's price is the lowest matched amount (no price if the
\* text has no match).
C13_FallbackOnlyWhenRankerEmpty ==
    [][ppc = "picked" =>
         IF pres.price # << >>
         THEN /\ pres'.price = pres.price /\ pres'.num = pres.num
              /\ pres'.via = "ranker"
         ELSE IF PageAmounts # {}
         THEN /\ pres'.via = "fallback:regex-min"
              /\ pres'.num \in PageAmounts
              /\ \A a \in PageAmounts : pres'.num <= a
              /\ pres'.price = <<Tok("r$"), Num(pres'.num)>>
         ELSE pres'.price = << >> /\ pres'.via = "none"]_vars

C13_Witness ==
    /\ ppc = "done" /\ pres.via = "fallback:regex-min"
    /\ pcands # << >>
    /\ Cardinality(PageAmounts) = 2 /\ pres.num = 3333
\* a page that shows and declares no amount at all
NoAmount(page) ==
    /\ NUMBER_RE_search(PageText(page)) = 0
    /\ \A i \in 1..Len(page.jsonld) : page.jsonld[i].form \notin {"dot", "comma"}

\* C14: in final.py a record whose page was fetched and parsed without an
\* exception has status ok and an empty error message, and when the page
\* gives no amount to any tier (structured data, DOM candidates, regex
\* fallback) its price string is empty and its numeric price null.
C14_NoPriceIsNotAnError ==
    prog = "final" =>
        \A k \in 1..Len(results) :
            results[k].parse = "ok" =>
                /\ results[k].status = "ok" /\ results[k].erro = ""
                /\ NoAmount(BatchPage(items[k].page)) =>
                      /\ results[k].price = << >>
                      /\ results[k].price_num = None
                      /\ results[k].via = "none"

C14_Witness ==
    /\ prog = "final" /\ pc = "done"
    /\ \E k \in 1..Len(results) :
          /\ NoAmount(BatchPage(items[k].page))
          /\ results[k].parse = "ok" /\ results[k].price = << >>
          /\ results[k].status = "ok"
    /\ \E k \in 1..Len(results) : results[k].price # << >>
\* C15: the price string of a record is non-empty exactly when its numeric
\* price is non-null, and then the numeric price is the value parsed from
\* the string, both after the ranker and after the fallback; every candidate
\* the ranker keeps has a non-empty normalised string and a non-null value.
C15_PriceStringAndNumberAgree ==
    ppc \in {"picked", "done"} =>
        /\ (pres.price # << >>) <=> (pres.num # None)
        /\ pres.price # << >> =>
              /\ br_to_float(pres.price) = pres.num
              /\ Len(pres.price) = 2 /\ pres.price[1].w = "r$"
              /\ pres.price[2].w = "num"
        /\ ppc = "picked" =>
              \A i \in 1..Len(pres.debug) :
                  /\ pres.debug[i].p # << >> /\ pres.debug[i].v # None
                  /\ br_to_float(pres.debug[i].p) = pres.debug[i].v

C15_Witness ==
    /\ ppc = "done" /\ pres.via = "fallback:regex-min"
    /\ pres.price = <<Tok("r$"), Num(10000)>> /\ pres.num = 10000
    /\ \E i \in 1..Len(pcands) : NUMBER_RE_search(pcands[i].txt) = 0
\* the comma-decimal, dot-grouped rendering of c cents, built from the number
RECURSIVE BrGroups(_)
BrGroups(n) ==
    IF n < 1000 THEN NatStr(n)
    ELSE BrGroups(n \div 1000) \o <<".">>
         \o <<DigitChars[((n % 1000) \div 100) + 1],
              DigitChars[((n % 100) \div 10) + 1], DigitChars[(n % 10) + 1]>>
BrCurrency(c) == <<"R", "$", " ">> \o BrGroups(c \div 100) \o <<",">> \o Pad2(c % 100)

\* C16: a document whose structured data has offers.price = "1299.90" and
\* which has no DOM price element gives the record the price string
\* "R$ 1.299,90" and the numeric price 1299.90; in general a dot-decimal
\* offer value of c cents (string or JSON number) gives the comma-decimal,
\* dot-grouped string of c cents and the numeric price c cents.
C16_DotDecimalOfferRendered ==
    fpc = "done" /\ fval.form \in {"dotstr", "number"} =>
        /\ fres.price = BrCurrency(fval.c)
        /\ fres.num = fval.c
        /\ fval.str = <<"1", "2", "9", "9", ".", "9", "0">> =>
              /\ fres.price = <<"R", "$", " ", "1", ".", "2", "9", "9", ",", "9", "0">>
              /\ fres.num = 129990

C16_Witness ==
    /\ fpc = "done" /\ fval.form = "dotstr"
    /\ fval.str = <<"1", "2", "9", "9", ".", "9", "0">>
    /\ fres.price = <<"R", "$", " ", "1", ".", "2", "9", "9", ",", "9", "0">>
    /\ fres.num = 129990
\* the words of a name, lower-cased: two names that differ only in letter
\* case or in their whitespace have the same words
RECURSIVE SplitWords(_, _)
SplitWords(str, word) ==
    IF str = << >> THEN (IF word = << >> THEN << >> ELSE <<word>>)
    ELSE IF IsSpace(Head(str))
    THEN (IF word = << >> THEN << >> ELSE <<word>>) \o SplitWords(Tail(str), << >>)
    ELSE SplitWords(Tail(str), Append(word, LowerOf(Head(str))))
SameProduct(a, b) == SplitWords(a, << >>) = SplitWords(b, << >>)

\* the rows ingested without an exception, in order: row m made List[m]
OkRows == SelectSeq(ilog, LAMBDA e : e.out = "ok")

\* C17: Vendor rows have pairwise different codes, Seller rows pairwise
\* different (name, vendor) pairs, Product rows pairwise different codes;
\* two ingested rows with the same vendor slug got the same vendor id, with
\* the same seller name under the same vendor the same seller id, and with
\* product names that differ only in letter case or whitespace the same
\* product id, which is the id of the row created first.
C17_EntitiesDeduplicated ==
    /\ \A i, j \in 1..Len(Fornecedores) :
          Fornecedores[i].code = Fornecedores[j].code => i = j
    /\ \A i, j \in 1..Len(Seller) :
          /\ Seller[i].name = Seller[j].name
          /\ Seller[i].fk_fornecedor = Seller[j].fk_fornecedor
          => i = j
    /\ \A i, j \in 1..Len(Products) : Products[i].code = Products[j].code => i = j
    /\ Len(OkRows) = Len(List)
    /\ \A m, n \in 1..Len(List) :
          LET a == OkRows[m].row
              b == OkRows[n].row
          IN  /\ slugify(a.fornecedor_name) = slugify(b.fornecedor_name)
                    => List[m].fk_fornecedor = List[n].fk_fornecedor
              /\ SameProduct(a.produto, b.produto)
                    => /\ List[m].fk_product = List[n].fk_product
                       /\ \A k \in 1..Len(Products) :
                             SameProduct(Products[k].model, a.produto)
                                => List[m].fk_product <= k
              /\ /\ List[m].fk_fornecedor = List[n].fk_fornecedor
                 /\ RowSeller(a) = RowSeller(b)
                 => List[m].fk_seller = List[n].fk_seller

C17_Witness ==
    /\ ipc = "end" /\ Len(List) = 3
    /\ Len(Fornecedores) = 1 /\ Len(Seller) = 2 /\ Len(Products) = 1
    /\ \E m, n \in 1..Len(List) :
          /\ OkRows[m].row.produto # OkRows[n].row.produto
          /\ OkRows[m].row.fornecedor_name # OkRows[n].row.fornecedor_name
          /\ List[m].fk_product = List[n].fk_product
          /\ List[m].fk_fornecedor = List[n].fk_fornecedor

\* how often a product was ingested, and how many listings reference a product
TimesIngested(produto) ==
    Cardinality({k \in 1..Len(ilog) : SameProduct(ilog[k].row.produto, produto)})
ListingsOf(id) == Cardinality({k \in 1..Len(List) : List[k].fk_product = id})

\* C18: when the same product name was ingested n >= 1 times and no step
\* raised, there is exactly one Product row with the code derived from the
\* name and exactly n Listing rows reference it.
C18_ReingestOneProductManyListings ==
    ipc \in {"row", "end"} /\ errs = 0 =>
        \A r \in IngestRows :
            TimesIngested(r.produto) >= 1 =>
                \E id \in 1..Len(Products) :
                    /\ SameProduct(Products[id].model, r.produto)
                    /\ \A k \in 1..Len(Products) :
                          SameProduct(Products[k].model, r.produto) => k = id
                    /\ ListingsOf(id) = TimesIngested(r.produto)

C18_Witness ==
    /\ ipc = "end" /\ errs = 0 /\ Len(Products) = 1 /\ Len(List) = 3
    /\ \A k \in 1..Len(ilog) : ilog[k].row = ilog[1].row
    /\ \A k \in 1..Len(List) : List[k].fk_product = 1

IsPrefix(a, b) == Len(a) <= Len(b) /\ SubSeq(b, 1, Len(a)) = a

\* C19: no ingest step changes or removes a row of Vendor, Seller, Product
\* or Listing: each table only grows at its end; the Listing table grows by
\* one row exactly in the step that completes a row of the input, so the
\* rows ingested and the Listing rows are equally many.
C19_ListingsAppendOnly ==
    [][/\ IsPrefix(Fornecedores, Fornecedores') /\ IsPrefix(Seller, Seller')
       /\ IsPrefix(Products, Products') /\ IsPrefix(List, List')
       /\ Len(List') = Len(List) + (IF ins_ok' = ins_ok + 1 THEN 1 ELSE 0)
       /\ ins_ok' \in {ins_ok, ins_ok + 1}
       /\ ins_ok' = Len(List')]_vars

C19_Witness ==
    /\ ipc = "end" /\ Len(List) = 2 /\ ins_ok = 2
    /\ Len(Fornecedores) = 1
    /\ Fornecedores[1].name = <<"K", "a", "B", "u", "m">>
    /\ OkRows[2].row.fornecedor_name = <<"k", "a", "b", "u", "m", "!">>
\* the positions at which the page of item idx is being fetched or read
Visiting == pc \in {"ensure", "get", "parse", "scrape_one"}

\* C20: the loop's delay runs between every two successive URL visits: while
\* item i+1 is visited, i records have been appended and the delay has run
\* i times, once after each of them, whether those items succeeded or
\* failed; the delay never runs ahead of the records.
C20_DelayBetweenVisits ==
    /\ Visiting => Len(results) = idx - 1 /\ slept = idx - 1
    /\ pc = "sleep" => slept = Len(results) - 1
    /\ slept <= Len(results)

C20_Witness ==
    /\ Visiting /\ idx = 2 /\ slept = 1
    /\ results[1].status = "erro"

\* C21: for a URL with a scheme and a well-formed host, pick_parser returns
\* the strategy of the first key of DOMAIN_PARSERS, in declaration order,
\* that the host contains, whatever the letter case, a www. prefix, a port
\* or the text after the host; it returns parse_generic when the host
\* contains no key, when the text has no host part, and when the URL
\* cannot be parsed (an unbalanced bracket).
ExpectedParser(u) ==
    IF u.scheme = << >> \/ u.host.bracket \/ u.host.keys = {} THEN "parse_generic"
    ELSE DOMAIN_PARSERS[CHOOSE k \in u.host.keys : \A q \in u.host.keys : k <= q].fn
C21_ParserByFirstContainedKey ==
    hfun = "pick_parser" /\ hpc = "ret" => hret = ExpectedParser(harg)

C21_Witness ==
    /\ hfun = "pick_parser" /\ hpc = "ret"
    /\ harg.host.keys = {2, 3} /\ harg.scheme # << >>
    /\ StartsWith(harg.url, harg.scheme \o <<"W", "W", "W", ".">>)
    /\ hret = "parse_magalu"

\* C22: for a text that is a number of the form d{1,3}(.ddd)*,dd, alone or
\* after a currency prefix, br_to_float returns the value written, counted
\* in cents from the parts of the number; for a text that holds no such
\* number it returns None.
C22_BrToFloatExact ==
    hfun = "br_to_float" /\ hpc = "ret" => hret = harg.written

C22_Witness ==
    /\ hfun = "br_to_float" /\ hpc = "ret"
    /\ harg.txt = <<"R", "$", " ", "1", ".", "2", "3", "4", ",", "5", "6">>
    /\ hret = 123456

\* C27: when the candidate the ranker selects is a whole banner
\* "de R$ 100,00 por R$ 80,00", the price it returns is the payable price
\* 80,00 and not the reference price 100,00.
C27_BannerYieldsPayablePrice ==
    /\ hfun = "pick_best_price" /\ hpc = "ret"
    /\ hret.best # << >> /\ hret.best[1].txt = BannerText
    => hret.num = 8000

\* the orders of a list
Perms(l) ==
    {[i \in 1..Len(l) |-> l[f[i]]] :
        f \in {g \in [1..Len(l) -> 1..Len(l)] :
                  \A i, j \in 1..Len(l) : g[i] = g[j] => i = j}}

\* the surviving candidates of one rank and value are written the same way
RankWrittenAlike(l) ==
    LET n == NormedChars(l)
    IN  \A i, j \in 1..Len(n) : n[i].s = n[j].s /\ n[i].v = n[j].v => n[i].p = n[j].p

\* C30 as stated: every order of the candidates gives the same price string
\* and the same numeric price.
C30_PriceOrderIndependent ==
    hfun = "pick_best_price" /\ hpc = "ret" =>
        \A q \in Perms(harg) :
            LET r == pick_best_price_chars(q)
            IN  r.price = hret.price /\ r.num = hret.num

\* C30 amended: every order of the candidates gives the same numeric price,
\* and the same price string when the surviving candidates of equal score
\* and value are written the same way.
C30_NumericPriceOrderIndependent ==
    hfun = "pick_best_price" /\ hpc = "ret" =>
        LET alike == RankWrittenAlike(harg)
        IN  \A q \in Perms(harg) :
                LET r == pick_best_price_chars(q)
                IN  r.num = hret.num /\ (alike => r.price = hret.price)

C30_Witness ==
    /\ hfun = "pick_best_price" /\ hpc = "ret" /\ Len(harg) = MaxCands
    /\ Len(NormedChars(harg)) = MaxCands /\ RankWrittenAlike(harg)
    /\ hret.best[1].txt # harg[1].txt
    /\ \E q \in Perms(harg) : q # harg /\ NormedChars(q)[1].v # hret.num

\* the handles created and not quit
OpenHandles == {h \in 1..Len(hs) : hs[h] # "quit"}

\* C26: in final.py at most one created handle is not quit at any point of
\* scrape_products, and when scrape_products has returned or raised every
\* handle created during the run has been quit.
C26_NoHandleLeak ==
    prog = "final" =>
        /\ Cardinality(OpenHandles) <= 1
        /\ pc \in {"done", "raised"} => OpenHandles = {}

\* C29: between two rows of the input, every Vendor, Seller and Product row
\* in the database belongs to a row that was ingested completely (a row
\* whose ingestion raised left nothing behind), every row that raised is
\* counted in errs, every Seller references an existing Vendor and every
\* Listing an existing Product, Seller and Vendor.
C29_RowAllOrNothing ==
    ipc \in {"row", "end"} =>
        /\ errs = Len(ilog) - Len(OkRows)
        /\ \A k \in 1..Len(Fornecedores) :
              \E m \in 1..Len(OkRows) : List[m].fk_fornecedor = k
        /\ \A k \in 1..Len(Seller) :
              /\ Seller[k].fk_fornecedor \in 1..Len(Fornecedores)
              /\ \E m \in 1..Len(OkRows) : List[m].fk_seller = k
        /\ \A k \in 1..Len(Products) :
              \E m \in 1..Len(OkRows) : List[m].fk_product = k
        /\ \A m \in 1..Len(List) :
              /\ List[m].fk_fornecedor \in 1..Len(Fornecedores)
              /\ List[m].fk_seller \in 1..Len(Seller)
              /\ List[m].fk_product \in 1..Len(Products)

\* C28: when two ingest runs work on one database at the same time, no two
\* Vendor rows and no two Product rows have the same code, and when both
\* runs have ended every input row of both has its Listing row (no row
\* ended in an error).
C28_ConcurrentRunsKeepCodesUnique ==
    crun # << >> =>
        /\ \A i, j \in 1..Len(Fornecedores) :
              Fornecedores[i].code = Fornecedores[j].code => i = j
        /\ \A i, j \in 1..Len(Products) : Products[i].code = Products[j].code => i = j
        /\ \A r \in Runs : crun[r].errs = 0
        /\ (\A r \in Runs : crun[r].pc = "end")
              => Len(List) = crun[1].ins_ok + crun[2].ins_ok

\* C23: scrape_term stops collecting once the per-term limit is reached: the
\* number of rows collected for the term never exceeds max_results_per_term.
C23_RowsWithinLimit == Len(rows) <= max_results_per_term

\* C24: among the rows of one site and term no two have the same
\* (nome, preco, link) triple, across all pages of the site.
C24_NoDuplicateRowsPerSite ==
    \A i, j \in 1..Len(rows) :
        (i # j /\ rows[i].site = rows[j].site /\ rows[i].termo = rows[j].termo)
            => <<rows[i].nome, rows[i].preco, rows[i].link>>
                   # <<rows[j].nome, rows[j].preco, rows[j].link>>

\* C25: when an item lacks a seller or a rating and has a link, and
\* enrich_from_details answers with a non-empty seller, rating or count that
\* the item lacks, the row of the item carries that value in fornecedor,
\* avaliacao or avaliacoes.
C25_EnrichedValuesCarried ==
    \A i \in 1..Len(rows) :
        (tlog[i].asked /\ DOMAIN tlog[i].more # {})
            => \A key \in {"fornecedor", "avaliacao", "avaliacoes"} :
                   (/\ DictGet(tlog[i].more, key) # << >>
                    /\ DictGet(tlog[i].it, key) = << >>)
                       => rows[i][key] = tlog[i].more[key]


====
